---- MODULE Spec2Model ----
(***************************************************************************)
(* Funding ledger of the multi-lender loan application: the request        *)
(* handlers of backend/src/handlers (auth, loan, lender, payment) over the *)
(* shared single-item key-value tables, and the payment calculator of      *)
(* backend/src/shared.  Every storage call of a handler is one             *)
(* atomic step; local computation is folded into the storage call that     *)
(* follows it (getLoanDetails, which only reads, is one step).  Money is   *)
(* counted in cents, a timestamp is a reading of a clock that ticks at     *)
(* most MaxTime times, a generated id is the size of its table plus one.   *)
(* Storage calls succeed, except in the specifications about failures.     *)
(***************************************************************************)
EXTENDS Integers, Sequences, FiniteSets, TLC

(***************************************************************************)
(* Bounds of the model.                                                    *)
(***************************************************************************)
\* The clock stops at MaxTime; at most MaxLoans loans are requested.
MaxTime == 1

MaxLoans == 2

\* The scenarios about one loan.
OneLoan == 1

\* Payment ids generated.
MaxPayments == 2

Workers == {"w1", "w2"}

\* The addresses clients register and log in with ("B" is a raw spelling of
\* "b"); "d" is only ever invited.
RegisterEmails == {"a", "b", "c", "B"}

Keys == {1}

\* The accounts that ask for loans.
BorrowerEmails == {"a"}

LoanAmounts == {100000, 99999}

Invite(e, c) == [email |-> e, contribution_amount |-> c]

\* The lender lists clients send (amounts in cents): exact and off-by-a-cent
\* splits of 1000.00, top-ups of one cent, a repeated address, a wrong sum,
\* a zero contribution, and no lender at all.
LenderLists ==
    {<<Invite("b", 50000), Invite("c", 50000)>>,
     <<Invite("b", 50000), Invite("c", 50001)>>,
     <<Invite("b", 99999)>>,
     <<Invite("a", 99999)>>,
     <<Invite("c", 1)>>,
     <<Invite("d", 1)>>,
     <<Invite("b", 50000), Invite("B", 50000)>>,
     <<Invite("b", 50000)>>,
     <<Invite("c", 0)>>,
     <<>>}

(***************************************************************************)
(* Program constants (cents).                                              *)
(***************************************************************************)
MinLoanAmount == 100000

MaxLoanAmount == 100000000

SumTolerance == 1

MaxBatch == 20

None == 0 - 1

(***************************************************************************)
(* Tables (DynamoDB: single-item reads and unconditional writes) and the   *)
(* workers' request state.                                                 *)
(***************************************************************************)
VARIABLES users, loans, participants, invitations, idem, ach, payments, req, clock

tables == <<users, loans, participants, invitations, idem, ach, payments>>

vars == <<users, loans, participants, invitations, idem, ach, payments, req, clock>>

(***************************************************************************)
(* Identities and normalisation.                                           *)
(***************************************************************************)
Lower(e) == IF e = "B" THEN "b" ELSE e

Registered(u) == [uid |-> u, email |-> ""]

PendingId(e) == [uid |-> 0, email |-> e]

IsPending(lid) == lid.uid = 0

(***************************************************************************)
(* Storage primitives.                                                     *)
(***************************************************************************)
UserKey(x) == x.user_id

LoanKey(x) == x.loan_id

PartKey(x) == <<x.loan_id, x.lender_id>>

InvKey(x) == x.invitation_id

IdemKey(x) == x.idempotency_key

AchKey(x) == <<x.user_id, x.loan_id>>

PayKey(x) == x.payment_id

\* The primary key of a row of table t.
KeyOf(t, x) ==
    CASE t = "users" -> UserKey(x)
      [] t = "loans" -> LoanKey(x)
      [] t = "loan_participants" -> PartKey(x)
      [] t = "invitations" -> InvKey(x)
      [] t = "idempotency_keys" -> IdemKey(x)
      [] t = "ach_details" -> AchKey(x)
      [] t = "payments" -> PayKey(x)

\* T is the content of table t.
GetItem(T, t, k) == {x \in T : KeyOf(t, x) = k}

PutItem(T, t, row) == {x \in T : KeyOf(t, x) # KeyOf(t, row)} \cup {row}

DeleteItem(T, t, k) == {x \in T : KeyOf(t, x) # k}

\* A scan or query result as the list the handler iterates over.
PartOrd(p) == p.loan_id * 1000 + (IF IsPending(p.lender_id) THEN 500 ELSE p.lender_id.uid)

RECURSIVE SortParts(_)
SortParts(S) ==
    IF S = {} THEN <<>>
    ELSE LET m == CHOOSE y \in S : \A z \in S : PartOrd(y) <= PartOrd(z)
         IN <<m>> \o SortParts(S \ {m})

InvOrd(v) == v.invitation_id

RECURSIVE SortInvs(_)
SortInvs(S) ==
    IF S = {} THEN <<>>
    ELSE LET m == CHOOSE y \in S : \A z \in S : InvOrd(y) <= InvOrd(z)
         IN <<m>> \o SortInvs(S \ {m})

RECURSIVE SumSet(_)
SumSet(S) ==
    IF S = {} THEN 0
    ELSE LET x == CHOOSE y \in S : TRUE
         IN (IF x.contribution_amount = None THEN 0 ELSE x.contribution_amount)
            + SumSet(S \ {x})

RECURSIVE SumSeq(_)
SumSeq(s) ==
    IF s = <<>> THEN 0 ELSE Head(s).contribution_amount + SumSeq(Tail(s))

Range(s) == {s[k] : k \in 1..Len(s)}

(***************************************************************************)
(* Responses (response_helper.py) and the worker's request record.         *)
(***************************************************************************)
JsonDumps(x) == [json |-> x]

JsonLoads(s) == s.json

CreateResponse(code, body) == [code |-> code, body |-> JsonDumps(body)]

ErrorResponse(code, error) ==
    CreateResponse(code, [success |-> FALSE, error |-> error])

SuccessResponse(data) == CreateResponse(200, [success |-> TRUE, data |-> data])

NoResp == [code |-> 0, body |-> JsonDumps([success |-> FALSE])]

IdleReq ==
    [pc |-> "idle", kind |-> "", uid |-> 0, email |-> "", key |-> 0, loan |-> 0,
     amount |-> 0, lenders |-> <<>>, i |-> 0, found |-> <<>>, invs |-> <<>>,
     parts |-> <<>>, existing |-> {}, prow |-> {}, lrow |-> {}, urow |-> {},
     ic |-> 0, pcnt |-> 0, now |-> 0, hit |-> FALSE, resp |-> NoResp,
     pid |-> 0, lender |-> Registered(0), pay |-> {}, calc |-> [op |-> ""]]

\* The request has returned `resp`; its locals are gone, what the client
\* sent (key, loan, lenders, payment id) is kept with the response.
Done(r, resp) ==
    [IdleReq EXCEPT !.pc = "done", !.kind = r.kind, !.uid = r.uid,
                    !.key = r.key, !.loan = r.loan, !.hit = r.hit,
                    !.lenders = r.lenders, !.pid = r.pid, !.resp = resp]

\* Only the response returned last is kept.
Latest(w, q) ==
    [v \in Workers |->
        IF v # w /\ q[w].pc = "done" /\ q[v].pc = "done" THEN IdleReq ELSE q[v]]

Busy(w) == req[w].pc \notin {"idle", "done"}

\* datetime.now(): the request reads the clock when it arrives.
NewReq(kind) == [IdleReq EXCEPT !.kind = kind, !.now = clock]

\* Time passes.
Tick ==
    /\ clock < MaxTime
    /\ clock' = clock + 1
    /\ UNCHANGED <<tables, req>>

Init ==
    /\ users = {}
    /\ loans = {}
    /\ participants = {}
    /\ invitations = {}
    /\ idem = {}
    /\ ach = {}
    /\ payments = {}
    /\ req = [w \in Workers |-> IdleReq]
    /\ clock = 0

(***************************************************************************)
(* auth_handler: register, login and the activation of an invitee          *)
(* (activate_invitations, update_participant_records).                     *)
(***************************************************************************)
UserResponse(code, u) ==
    CreateResponse(code, [success |-> TRUE,
                          user |-> [user_id |-> u.user_id, email |-> u.email,
                                    is_lender |-> u.is_lender]])

QueryUsersByEmail(U, email) == {u \in U : u.email = email}

check_pending_invitations(I, email) ==
    {v \in I : v.invitee_email = email /\ v.status = "PENDING"}

\* update_item on an invitation (invitations are never deleted).
ActivateInvitation(I, inv, at) ==
    {IF InvKey(v) = InvKey(inv)
     THEN [v EXCEPT !.status = "ACTIVATED", !.activated_at = at]
     ELSE v : v \in I}

ScanPendingParticipants(P, email) == {p \in P : p.lender_id = PendingId(email)}

\* As MigratedParticipant, stamping the new row as invited now.
MigratedParticipantInvitedNow(p, uid, at) ==
    [loan_id |-> p.loan_id, lender_id |-> Registered(uid),
     contribution_amount |-> p.contribution_amount, status |-> p.status,
     invited_at |-> at, responded_at |-> None, total_paid |-> None,
     remaining_balance |-> None, updated_at |-> at]

MigratedParticipant(p, uid, at) ==
    [loan_id |-> p.loan_id, lender_id |-> Registered(uid),
     contribution_amount |-> p.contribution_amount, status |-> p.status,
     invited_at |-> p.invited_at, responded_at |-> None, total_paid |-> None,
     remaining_balance |-> None, updated_at |-> at]

SetLender(U, uid) ==
    {IF u.user_id = uid THEN [u EXCEPT !.is_lender = TRUE] ELSE u : u \in U}

\* activate_invitations: every invitation of the list is set ACTIVATED.
RECURSIVE activate_invitations(_, _, _)
activate_invitations(I, pending, at) ==
    IF pending = <<>> THEN I
    ELSE activate_invitations(ActivateInvitation(I, Head(pending), at),
                              Tail(pending), at)

\* The loop of update_participant_records over the scanned rows.
RECURSIVE MigrateRows(_, _, _, _, _)
MigrateRows(P, rows, email, uid, at) ==
    IF rows = <<>> THEN P
    ELSE LET deleted == DeleteItem(P, "loan_participants",
                                   <<Head(rows).loan_id, PendingId(email)>>)
         IN MigrateRows(PutItem(deleted, "loan_participants",
                                MigratedParticipant(Head(rows), uid, at)),
                        Tail(rows), email, uid, at)

\* As update_participant_records, leaving the sentinel rows in place.
UpdateParticipantRecordsKeepSentinel(P, email, uid, at) ==
    LET rows == SortParts(ScanPendingParticipants(P, email))
    IN P \cup {MigratedParticipant(rows[k], uid, at) : k \in 1..Len(rows)}

update_participant_records(P, email, uid, at) ==
    MigrateRows(P, SortParts(ScanPendingParticipants(P, email)), email, uid, at)

\* The response once the activation steps are over (or were skipped).
AuthDone(r, is_lender) ==
    Done(r, UserResponse(IF r.kind = "register" THEN 201 ELSE 200,
                         [user_id |-> r.uid, email |-> r.email,
                          is_lender |-> is_lender]))

StartRegister(w, e) ==
    /\ ~ Busy(w)
    /\ LET r == [NewReq("register") EXCEPT !.email = Lower(e)]
       IN req' = Latest(w, [req EXCEPT ![w] =
                    IF QueryUsersByEmail(users, r.email) # {}
                    THEN Done(r, ErrorResponse(409, "USER_EXISTS"))
                    ELSE [r EXCEPT !.pc = "rg_check"]])
    /\ UNCHANGED <<tables, clock>>

RegisterCheckInvitations(w) ==
    /\ req[w].pc = "rg_check"
    /\ req' = [req EXCEPT ![w].pc = "rg_put",
                          ![w].invs = SortInvs(check_pending_invitations(
                                                   invitations, req[w].email))]
    /\ UNCHANGED <<tables, clock>>

RegisterPutUser(w) ==
    /\ req[w].pc = "rg_put"
    /\ LET r == [req[w] EXCEPT !.uid = Cardinality(users) + 1]
           has_invitations == Len(r.invs) > 0
       IN /\ users' = PutItem(users, "users",
                              [user_id |-> r.uid, email |-> r.email,
                               is_lender |-> has_invitations])
          /\ req' = Latest(w, [req EXCEPT ![w] =
                       IF has_invitations
                       THEN [r EXCEPT !.pc = "act_inv", !.i = 1]
                       ELSE AuthDone(r, FALSE)])
    /\ UNCHANGED <<loans, participants, invitations, idem, ach, payments, clock>>

StartLogin(w, e, password_ok) ==
    /\ ~ Busy(w)
    /\ LET r == [NewReq("login") EXCEPT !.email = Lower(e)]
           found == QueryUsersByEmail(users, r.email)
       IN IF found = {} \/ ~ password_ok
          THEN req' = Latest(w, [req EXCEPT ![w] =
                         Done(r, ErrorResponse(401, "INVALID_CREDENTIALS"))])
          ELSE \E u \in found :
                 req' = Latest(w, [req EXCEPT ![w] =
                           [r EXCEPT !.pc = "lg_check", !.uid = u.user_id,
                                     !.urow = {u}]])
    /\ UNCHANGED <<tables, clock>>

LoginCheckInvitations(w) ==
    /\ req[w].pc = "lg_check"
    /\ LET r == req[w]
           pending == SortInvs(check_pending_invitations(invitations, r.email))
           user == CHOOSE u \in r.urow : TRUE
       IN req' = Latest(w, [req EXCEPT ![w] =
                    IF Len(pending) > 0 /\ ~ user.is_lender
                    THEN [r EXCEPT !.pc = "lg_upd", !.invs = pending]
                    ELSE AuthDone(r, user.is_lender)])
    /\ UNCHANGED <<tables, clock>>

LoginUpdateUser(w) ==
    /\ req[w].pc = "lg_upd"
    /\ users' = SetLender(users, req[w].uid)
    /\ req' = [req EXCEPT ![w].pc = "act_inv", ![w].i = 1]
    /\ UNCHANGED <<loans, participants, invitations, idem, ach, payments, clock>>

ActivateNextInvitation(w) ==
    /\ req[w].pc = "act_inv"
    /\ LET r == req[w]
       IN /\ invitations' = ActivateInvitation(invitations, r.invs[r.i], r.now)
          /\ req' = Latest(w, [req EXCEPT ![w] =
                       IF r.i < Len(r.invs)
                       THEN [r EXCEPT !.i = r.i + 1]
                       ELSE [r EXCEPT !.pc = "act_scan"]])
    /\ UNCHANGED <<users, loans, participants, idem, ach, payments, clock>>

ScanParticipants(w) ==
    /\ req[w].pc = "act_scan"
    /\ LET r == req[w]
           found == SortParts(ScanPendingParticipants(participants, r.email))
       IN req' = Latest(w, [req EXCEPT ![w] =
                    IF found = <<>>
                    THEN AuthDone(r, TRUE)
                    ELSE [r EXCEPT !.pc = "act_del", !.parts = found, !.i = 1]])
    /\ UNCHANGED <<tables, clock>>

DeletePendingParticipant(w) ==
    /\ req[w].pc = "act_del"
    /\ LET r == req[w]
       IN participants' = DeleteItem(participants, "loan_participants",
                                     <<r.parts[r.i].loan_id, PendingId(r.email)>>)
    /\ req' = [req EXCEPT ![w].pc = "act_put"]
    /\ UNCHANGED <<users, loans, invitations, idem, ach, payments, clock>>

PutMigratedParticipant(w) ==
    /\ req[w].pc = "act_put"
    /\ LET r == req[w]
       IN /\ participants' = PutItem(participants, "loan_participants",
                                     MigratedParticipant(r.parts[r.i], r.uid, r.now))
          /\ req' = Latest(w, [req EXCEPT ![w] =
                       IF r.i < Len(r.parts)
                       THEN [r EXCEPT !.pc = "act_del", !.i = r.i + 1]
                       ELSE AuthDone(r, TRUE)])
    /\ UNCHANGED <<users, loans, invitations, idem, ach, payments, clock>>

(***************************************************************************)
(* auth_handler when a storage call of the activation raises: the three    *)
(* helpers log and return, handle_login's own update_item does not.        *)
(***************************************************************************)
\* check_pending_invitations: the query raises, the helper returns [].
RegisterCheckInvitationsFails(w) ==
    /\ req[w].pc = "rg_check"
    /\ req' = [req EXCEPT ![w].pc = "rg_put", ![w].invs = <<>>]
    /\ UNCHANGED <<tables, clock>>

LoginCheckInvitationsFails(w) ==
    /\ req[w].pc = "lg_check"
    /\ LET user == CHOOSE u \in req[w].urow : TRUE
       IN req' = Latest(w, [req EXCEPT ![w] = AuthDone(req[w], user.is_lender)])
    /\ UNCHANGED <<tables, clock>>

\* handle_login: update_item raises inside the handler's own try block.
LoginUpdateUserFails(w) ==
    /\ req[w].pc = "lg_upd"
    /\ req' = Latest(w, [req EXCEPT ![w] =
                 Done(req[w], ErrorResponse(500, "INTERNAL_ERROR"))])
    /\ UNCHANGED <<tables, clock>>

\* activate_invitations: update_item raises, the loop is abandoned.
ActivateNextInvitationFails(w) ==
    /\ req[w].pc = "act_inv"
    /\ req' = [req EXCEPT ![w].pc = "act_scan"]
    /\ UNCHANGED <<tables, clock>>

\* update_participant_records: the scan, a delete or a put raises, the
\* function returns and the request goes on to its response.
UpdateParticipantRecordsFails(w) ==
    /\ req[w].pc \in {"act_scan", "act_del", "act_put"}
    /\ req' = Latest(w, [req EXCEPT ![w] = AuthDone(req[w], TRUE)])
    /\ UNCHANGED <<tables, clock>>

ActivationFailures(w) ==
    \/ RegisterCheckInvitationsFails(w)
    \/ LoginCheckInvitationsFails(w)
    \/ LoginUpdateUserFails(w)
    \/ ActivateNextInvitationFails(w)
    \/ UpdateParticipantRecordsFails(w)

(***************************************************************************)
(* loan_handler: the invitation batch shared by createLoan and addLenders  *)
(* (create_lender_invitations_batch) and the idempotency record.           *)
(***************************************************************************)
\* LenderInviteRequest: the validator lower-cases the address.
Normalised(lenders) ==
    [k \in 1..Len(lenders) |-> [lenders[k] EXCEPT !.email = Lower(lenders[k].email)]]

LenderEmails(lenders) == {lenders[k].email : k \in 1..Len(lenders)}

NewParticipant(loan_id, lender_id, contribution_amount, at) ==
    [loan_id |-> loan_id, lender_id |-> lender_id,
     contribution_amount |-> contribution_amount, status |-> "PENDING",
     invited_at |-> at, responded_at |-> None, total_paid |-> 0,
     remaining_balance |-> contribution_amount, updated_at |-> None]

NewInvitation(r) ==
    [invitation_id |-> Cardinality(invitations) + 1, inviter_id |-> r.uid,
     invitee_email |-> r.lenders[r.i].email, loan_id |-> r.loan,
     status |-> "PENDING", created_at |-> r.now, activated_at |-> None]

CreateLoanBody(r) ==
    [success |-> TRUE,
     loan |-> [loan_id |-> r.loan, borrower_id |-> r.uid, amount |-> r.amount,
               status |-> "PENDING", total_funded |-> 0, created_at |-> r.now,
               invitations_created |-> r.ic, participants_created |-> r.pcnt]]

AddLendersBody(r) ==
    LET total_after_add == SumSet(r.existing) + SumSeq(r.lenders)
    IN [success |-> TRUE,
        data |-> [loan_id |-> r.loan, lenders_added |-> Len(r.lenders),
                  invitations_created |-> r.ic, participants_created |-> r.pcnt,
                  total_invited |-> total_after_add,
                  remaining |-> r.amount - total_after_add,
                  is_fully_invited |-> total_after_add >= r.amount],
        message |-> "Lenders added successfully"]

\* The batch is over: build the response, store the idempotency record if a
\* key was sent.
InviteFinish(r) ==
    LET resp == IF r.kind = "createLoan"
                THEN CreateResponse(201, CreateLoanBody(r))
                ELSE CreateResponse(200, AddLendersBody(r))
    IN IF r.key # 0 THEN [r EXCEPT !.pc = "idem_put", !.resp = resp]
       ELSE Done(r, resp)

\* The loop of create_lender_invitations_batch moves to invitee k.
InviteStep(r, k) ==
    IF k > Len(r.lenders) THEN InviteFinish(r)
    ELSE [r EXCEPT !.i = k,
                   !.pc = IF r.found[k] # {} THEN "inv_put_real" ELSE "inv_query"]

CachedResponse(rec) ==
    CreateResponse(rec.status_code, JsonLoads(rec.response_body))

IdempotencyRecord(r) ==
    [idempotency_key |-> r.key, user_id |-> r.uid, loan_id |-> r.loan,
     status_code |-> r.resp.code, response_body |-> r.resp.body,
     created_at |-> r.now]

batch_lookup_lender_emails(w) ==
    /\ req[w].pc = "inv_lookup"
    /\ LET r == req[w]
           match == QueryUsersByEmail(users, r.lenders[r.i].email)
       IN \E res \in (IF match = {} THEN {{}} ELSE {{u} : u \in match}) :
            req' = Latest(w, [req EXCEPT ![w] =
                      LET r2 == [r EXCEPT !.found = Append(r.found, res)]
                      IN IF r.i < Len(r.lenders)
                         THEN [r2 EXCEPT !.i = r.i + 1]
                         ELSE InviteStep(r2, 1)])
    /\ UNCHANGED <<tables, clock>>

PutRealParticipant(w) ==
    /\ req[w].pc = "inv_put_real"
    /\ LET r == req[w]
           user == CHOOSE u \in r.found[r.i] : TRUE
           r2 == [r EXCEPT !.pcnt = r.pcnt + 1]
       IN /\ participants' =
               PutItem(participants, "loan_participants",
                       NewParticipant(r.loan, Registered(user.user_id),
                                      r.lenders[r.i].contribution_amount, r.now))
          /\ req' = Latest(w, [req EXCEPT ![w] =
                       IF ~ user.is_lender
                       THEN [r2 EXCEPT !.pc = "inv_upd_user"]
                       ELSE InviteStep(r2, r.i + 1)])
    /\ UNCHANGED <<users, loans, invitations, idem, ach, payments, clock>>

ActivateLenderRole(w) ==
    /\ req[w].pc = "inv_upd_user"
    /\ LET r == req[w]
           user == CHOOSE u \in r.found[r.i] : TRUE
       IN /\ users' = SetLender(users, user.user_id)
          /\ req' = Latest(w, [req EXCEPT ![w] = InviteStep(r, r.i + 1)])
    /\ UNCHANGED <<loans, participants, invitations, idem, ach, payments, clock>>

QueryLoanInvitations(w) ==
    /\ req[w].pc = "inv_query"
    /\ LET r == req[w]
           invitation_exists ==
               \E v \in invitations :
                   v.loan_id = r.loan /\ v.invitee_email = r.lenders[r.i].email
       IN req' = [req EXCEPT ![w].pc =
                    IF invitation_exists THEN "inv_get_part" ELSE "inv_put_inv"]
    /\ UNCHANGED <<tables, clock>>

PutInvitation(w) ==
    /\ req[w].pc = "inv_put_inv"
    /\ invitations' = PutItem(invitations, "invitations", NewInvitation(req[w]))
    /\ req' = [req EXCEPT ![w].pc = "inv_get_part", ![w].ic = req[w].ic + 1]
    /\ UNCHANGED <<users, loans, participants, idem, ach, payments, clock>>

\* As GetPendingParticipant, with the sentinel row written whether or not
\* one is stored.
GetPendingParticipantAlwaysNew(w) ==
    /\ req[w].pc = "inv_get_part"
    /\ req' = [req EXCEPT ![w].pc = "inv_put_part"]
    /\ UNCHANGED <<tables, clock>>

GetPendingParticipant(w) ==
    /\ req[w].pc = "inv_get_part"
    /\ LET r == req[w]
           existing_participant ==
               GetItem(participants, "loan_participants",
                       <<r.loan, PendingId(r.lenders[r.i].email)>>)
       IN req' = Latest(w, [req EXCEPT ![w] =
                    IF existing_participant = {}
                    THEN [r EXCEPT !.pc = "inv_put_part"]
                    ELSE InviteStep(r, r.i + 1)])
    /\ UNCHANGED <<tables, clock>>

PutPendingParticipant(w) ==
    /\ req[w].pc = "inv_put_part"
    /\ LET r == req[w]
       IN /\ participants' =
               PutItem(participants, "loan_participants",
                       NewParticipant(r.loan, PendingId(r.lenders[r.i].email),
                                      r.lenders[r.i].contribution_amount, r.now))
          /\ req' = Latest(w, [req EXCEPT ![w] =
                       InviteStep([r EXCEPT !.pcnt = r.pcnt + 1], r.i + 1)])
    /\ UNCHANGED <<users, loans, invitations, idem, ach, payments, clock>>

PutIdempotencyRecord(w) ==
    /\ req[w].pc = "idem_put"
    /\ idem' = PutItem(idem, "idempotency_keys", IdempotencyRecord(req[w]))
    /\ req' = Latest(w, [req EXCEPT ![w] = Done(req[w], req[w].resp)])
    /\ UNCHANGED <<users, loans, participants, invitations, ach, payments, clock>>

\* The dictionary create_lender_invitations_batch returns from its except
\* clause.
BatchResultWithError(r) ==
    CreateResponse(0, [invitations_created |-> r.ic,
                       participants_created |-> r.pcnt,
                       error |-> "Database operation failed"])

\* A storage call of the invitation loop raises: the except clause around
\* the loop returns the counts so far with the error.  handle_create_loan
\* then marks the loan FAILED, handle_add_lenders answers 500.
InvitationBatchFails(w) ==
    /\ req[w].pc \in {"inv_put_real", "inv_query", "inv_put_inv", "inv_get_part", "inv_put_part"}
    /\ LET r == req[w]
       IN req' = Latest(w, [req EXCEPT ![w] =
                    CASE r.kind = "createLoan" -> [r EXCEPT !.pc = "cl_fail"]
                      [] r.kind = "addLenders" ->
                            Done(r, ErrorResponse(500, "INTERNAL_ERROR"))
                      [] OTHER -> Done(r, BatchResultWithError(r))])
    /\ UNCHANGED <<tables, clock>>

\* create_lender_invitations_batch called on its own for a stored loan, as
\* its unit tests call it: the invitees are whatever the caller passes.
create_lender_invitations_batch(w, loan, lenders) ==
    /\ ~ Busy(w)
    /\ req' = Latest(w, [req EXCEPT ![w] =
                 [NewReq("invite") EXCEPT !.uid = loan.borrower_id,
                                          !.loan = loan.loan_id,
                                          !.amount = loan.amount,
                                          !.lenders = Normalised(lenders),
                                          !.pc = "inv_lookup", !.i = 1]])
    /\ UNCHANGED <<tables, clock>>

(***************************************************************************)
(* loan_handler: createLoan (handle_create_loan).                          *)
(***************************************************************************)
Abs(x) == IF x < 0 THEN 0 - x ELSE x

\* CreateLoanRequest and LenderInviteRequest (validation_schemas.py).
ValidCreateLoanRequest(amount, lenders) ==
    /\ amount >= MinLoanAmount
    /\ amount <= MaxLoanAmount
    /\ Len(lenders) >= 1
    /\ \A k \in 1..Len(lenders) : lenders[k].contribution_amount > 0
    /\ ~ (Abs(SumSeq(lenders) - amount) > SumTolerance)

HasDuplicateEmail(lenders) == Len(lenders) # Cardinality(LenderEmails(lenders))

InvitesSelf(email, lenders) == email \in LenderEmails(lenders)

\* As StartCreateLoan, with the payload validated before the key is looked up.
StartCreateLoanValidateFirst(w, u, key, amount, lenders) ==
    /\ ~ Busy(w)
    /\ LET r == [NewReq("createLoan") EXCEPT !.uid = u.user_id,
                                             !.email = u.email, !.key = key]
           existing_record == GetItem(idem, "idempotency_keys", key)
           request_data == Normalised(lenders)
       IN req' = Latest(w, [req EXCEPT ![w] =
                    IF \/ ~ ValidCreateLoanRequest(amount, request_data)
                       \/ HasDuplicateEmail(request_data)
                       \/ InvitesSelf(u.email, request_data)
                    THEN Done(r, ErrorResponse(400, "VALIDATION_ERROR"))
                    ELSE IF key # 0 /\ existing_record # {}
                    THEN Done([r EXCEPT !.hit = TRUE],
                              CachedResponse(CHOOSE x \in existing_record : TRUE))
                    ELSE [r EXCEPT !.pc = "cl_put", !.amount = amount,
                                   !.lenders = request_data]])
    /\ UNCHANGED <<tables, clock>>

\* Loans stored or about to be.
LoansRequested ==
    Cardinality(loans) + Cardinality({v \in Workers : req[v].pc = "cl_put"})

StartCreateLoan(w, u, key, amount, lenders) ==
    /\ ~ Busy(w)
    /\ LET r == [NewReq("createLoan") EXCEPT !.uid = u.user_id,
                                             !.email = u.email, !.key = key]
           existing_record == GetItem(idem, "idempotency_keys", key)
           request_data == Normalised(lenders)
       IN req' = Latest(w, [req EXCEPT ![w] =
                    IF key # 0 /\ existing_record # {}
                    THEN Done([r EXCEPT !.hit = TRUE],
                              CachedResponse(CHOOSE x \in existing_record : TRUE))
                    ELSE IF \/ ~ ValidCreateLoanRequest(amount, request_data)
                            \/ HasDuplicateEmail(request_data)
                            \/ InvitesSelf(u.email, request_data)
                    THEN Done(r, ErrorResponse(400, "VALIDATION_ERROR"))
                    ELSE [r EXCEPT !.pc = "cl_put", !.amount = amount,
                                   !.lenders = request_data]])
    /\ UNCHANGED <<tables, clock>>

PutLoan(w) ==
    /\ req[w].pc = "cl_put"
    /\ LET r == [req[w] EXCEPT !.loan = Cardinality(loans) + 1]
       IN /\ loans' = PutItem(loans, "loans",
                              [loan_id |-> r.loan, borrower_id |-> r.uid,
                               amount |-> r.amount, status |-> "PENDING",
                               total_funded |-> 0, created_at |-> r.now])
          /\ req' = Latest(w, [req EXCEPT ![w] = [r EXCEPT !.pc = "inv_lookup", !.i = 1]])
    /\ UNCHANGED <<users, participants, invitations, idem, ach, payments, clock>>

\* "Loan created but invitation processing failed. Loan ID: <loan_id>."
LoanFailedResponse(loan_id) ==
    CreateResponse(500, [success |-> FALSE, error |-> "INTERNAL_ERROR", loan_id |-> loan_id])

\* The update_item that sets the status of loan_id to FAILED.
SetLoanFailed(L, loan_id) ==
    {IF l.loan_id = loan_id THEN [l EXCEPT !.status = "FAILED"] ELSE l : l \in L}

\* handle_create_loan after a batch that returned an error.
MarkLoanFailed(w) ==
    /\ req[w].pc = "cl_fail"
    /\ loans' = SetLoanFailed(loans, req[w].loan)
    /\ req' = Latest(w, [req EXCEPT ![w] =
                 Done(req[w], LoanFailedResponse(req[w].loan))])
    /\ UNCHANGED <<users, participants, invitations, idem, ach, payments, clock>>

\* The update_item of MarkLoanFailed raises: the exception is caught by the
\* except clause around the invitation processing.
MarkLoanFailedFails(w) ==
    /\ req[w].pc = "cl_fail"
    /\ req' = [req EXCEPT ![w].pc = "cl_fail_again"]
    /\ UNCHANGED <<tables, clock>>

\* The except clause marks the loan FAILED, best effort: the update is
\* stored or raises and is passed over; the response is the same.
MarkLoanFailedBestEffort(w) ==
    /\ req[w].pc = "cl_fail_again"
    /\ \E stored \in BOOLEAN :
          loans' = IF stored THEN SetLoanFailed(loans, req[w].loan) ELSE loans
    /\ req' = Latest(w, [req EXCEPT ![w] =
                 Done(req[w], LoanFailedResponse(req[w].loan))])
    /\ UNCHANGED <<users, participants, invitations, idem, ach, payments, clock>>

(***************************************************************************)
(* loan_handler: addLenders (handle_add_lenders).                          *)
(***************************************************************************)
LoanIds == {l.loan_id : l \in loans} \cup {0}

StartAddLenders(w, u, key, loan_id, lenders) ==
    /\ ~ Busy(w)
    /\ LET r == [NewReq("addLenders") EXCEPT !.uid = u.user_id,
                                             !.email = u.email, !.key = key,
                                             !.loan = loan_id]
           existing_record == GetItem(idem, "idempotency_keys", key)
       IN req' = Latest(w, [req EXCEPT ![w] =
                    IF key # 0 /\ existing_record # {}
                    THEN Done([r EXCEPT !.hit = TRUE],
                              CachedResponse(CHOOSE x \in existing_record : TRUE))
                    ELSE [r EXCEPT !.pc = "al_get_loan", !.lenders = lenders]])
    /\ UNCHANGED <<tables, clock>>

AddLendersGetLoan(w) ==
    /\ req[w].pc = "al_get_loan"
    /\ LET r == req[w]
           found == GetItem(loans, "loans", r.loan)
           loan == CHOOSE l \in found : TRUE
           new_lenders == Normalised(r.lenders)
       IN req' = Latest(w, [req EXCEPT ![w] =
                    IF found = {} THEN Done(r, ErrorResponse(404, "NOT_FOUND"))
                    ELSE IF loan.borrower_id # r.uid
                    THEN Done(r, ErrorResponse(403, "FORBIDDEN"))
                    ELSE IF \/ loan.status # "PENDING"
                            \/ Len(r.lenders) = 0
                            \/ Len(r.lenders) > MaxBatch
                            \/ \E k \in 1..Len(r.lenders) :
                                   ~ (r.lenders[k].contribution_amount > 0)
                            \/ InvitesSelf(r.email, new_lenders)
                    THEN Done(r, ErrorResponse(400, "VALIDATION_ERROR"))
                    ELSE [r EXCEPT !.pc = "al_query", !.lenders = new_lenders,
                                   !.amount = loan.amount]])
    /\ UNCHANGED <<tables, clock>>

\* As AddLendersDecide, without the check of the total.
AddLendersDecideNoTotal(r, existing_lender_emails) ==
    IF LenderEmails(r.lenders) \cap existing_lender_emails # {}
    THEN Done(r, ErrorResponse(400, "VALIDATION_ERROR"))
    ELSE [r EXCEPT !.pc = "inv_lookup", !.i = 1]

\* batch_check_duplicate_lenders, then the total check of handle_add_lenders.
AddLendersDecide(r, existing_lender_emails) ==
    IF \/ LenderEmails(r.lenders) \cap existing_lender_emails # {}
       \/ SumSet(r.existing) + SumSeq(r.lenders) > r.amount
    THEN Done(r, ErrorResponse(400, "VALIDATION_ERROR"))
    ELSE [r EXCEPT !.pc = "inv_lookup", !.i = 1]

PendingEmails(P) == {p.lender_id.email : p \in {q \in P : IsPending(q.lender_id)}}

RealLenderIds(P) == {p.lender_id.uid : p \in {q \in P : ~ IsPending(q.lender_id)}}

AddLendersQueryParticipants(w) ==
    /\ req[w].pc = "al_query"
    /\ LET existing_participants == {p \in participants : p.loan_id = req[w].loan}
           r == [req[w] EXCEPT !.existing = existing_participants]
       IN req' = Latest(w, [req EXCEPT ![w] =
                    IF RealLenderIds(existing_participants) # {}
                    THEN [r EXCEPT !.pc = "al_batch"]
                    ELSE AddLendersDecide(r, PendingEmails(existing_participants))])
    /\ UNCHANGED <<tables, clock>>

\* As AddLendersBatchGetUsers, with the addresses of the registered lenders
\* left out of the duplicate check.
AddLendersBatchGetUsersSkipped(w) ==
    /\ req[w].pc = "al_batch"
    /\ req' = Latest(w, [req EXCEPT ![w] =
                 AddLendersDecide(req[w], PendingEmails(req[w].existing))])
    /\ UNCHANGED <<tables, clock>>

AddLendersBatchGetUsers(w) ==
    /\ req[w].pc = "al_batch"
    /\ LET r == req[w]
           lender_users == {u \in users : u.user_id \in RealLenderIds(r.existing)}
       IN req' = Latest(w, [req EXCEPT ![w] =
                    AddLendersDecide(r, PendingEmails(r.existing)
                                          \cup {u.email : u \in lender_users})])
    /\ UNCHANGED <<tables, clock>>

(***************************************************************************)
(* lender_handler: accept (handle_accept_loan, accept_loan_atomic).        *)
(***************************************************************************)
StartAccept(w, u, loan_id) ==
    /\ ~ Busy(w)
    /\ u.is_lender
    /\ LET r == [NewReq("accept") EXCEPT !.uid = u.user_id, !.email = u.email,
                                         !.loan = loan_id]
           participant == GetItem(participants, "loan_participants",
                                  <<loan_id, Registered(u.user_id)>>)
       IN req' = Latest(w, [req EXCEPT ![w] =
                    IF \/ participant = {}
                       \/ \E p \in participant : p.status # "PENDING"
                    THEN Done(r, ErrorResponse(404, "NOT_FOUND"))
                    ELSE [r EXCEPT !.pc = "ac_get_loan", !.prow = participant]])
    /\ UNCHANGED <<tables, clock>>

\* As AcceptGetLoan, accepting on a loan of any status.
AcceptGetLoanAnyStatus(w) ==
    /\ req[w].pc = "ac_get_loan"
    /\ LET r == req[w]
           loan == GetItem(loans, "loans", r.loan)
       IN req' = Latest(w, [req EXCEPT ![w] =
                    IF loan = {} THEN Done(r, ErrorResponse(404, "NOT_FOUND"))
                    ELSE [r EXCEPT !.pc = "ac_upd_part", !.lrow = loan]])
    /\ UNCHANGED <<tables, clock>>

AcceptGetLoan(w) ==
    /\ req[w].pc = "ac_get_loan"
    /\ LET r == req[w]
           loan == GetItem(loans, "loans", r.loan)
       IN req' = Latest(w, [req EXCEPT ![w] =
                    IF loan = {} THEN Done(r, ErrorResponse(404, "NOT_FOUND"))
                    ELSE IF \E l \in loan : l.status # "PENDING"
                    THEN Done(r, ErrorResponse(400, "VALIDATION_ERROR"))
                    ELSE [r EXCEPT !.pc = "ac_upd_part", !.lrow = loan]])
    /\ UNCHANGED <<tables, clock>>

NewTotalFunded(r) ==
    (CHOOSE l \in r.lrow : TRUE).total_funded
        + (CHOOSE p \in r.prow : TRUE).contribution_amount

\* As NewLoanStatus, ACTIVE only when the total exceeds the amount.
NewLoanStatusStrict(r) ==
    IF NewTotalFunded(r) > (CHOOSE l \in r.lrow : TRUE).amount
    THEN "ACTIVE" ELSE "PENDING"

NewLoanStatus(r) ==
    IF NewTotalFunded(r) >= (CHOOSE l \in r.lrow : TRUE).amount
    THEN "ACTIVE" ELSE "PENDING"

\* update_item on the participant row: SET status, responded_at and, only
\* where absent, total_paid and remaining_balance (a row keyed by an account
\* id is never deleted, so the row is there).
AcceptParticipant(P, key, contribution, at) ==
    {IF PartKey(p) = key
     THEN [p EXCEPT !.status = "ACCEPTED", !.responded_at = at,
                    !.total_paid = IF @ = None THEN 0 ELSE @,
                    !.remaining_balance = IF @ = None THEN contribution ELSE @]
     ELSE p : p \in P}

\* update_item on the loan row: SET total_funded, status.
FundLoan(L, loan_id, total_funded, status) ==
    {IF l.loan_id = loan_id
     THEN [l EXCEPT !.total_funded = total_funded, !.status = status]
     ELSE l : l \in L}

\* As AcceptUpdateParticipant, the write conditional on the stored row being
\* PENDING still.
AcceptUpdateParticipantIfPending(w) ==
    /\ req[w].pc = "ac_upd_part"
    /\ LET r == req[w]
           stored == GetItem(participants, "loan_participants",
                             <<r.loan, Registered(r.uid)>>)
       IN IF \E p \in stored : p.status = "PENDING"
          THEN /\ participants' =
                    AcceptParticipant(participants, <<r.loan, Registered(r.uid)>>,
                                      (CHOOSE p \in r.prow : TRUE).contribution_amount,
                                      r.now)
               /\ req' = [req EXCEPT ![w].pc = "ac_upd_loan"]
          ELSE /\ participants' = participants
               /\ req' = Latest(w, [req EXCEPT ![w] =
                             Done(r, ErrorResponse(400, "VALIDATION_ERROR"))])
    /\ UNCHANGED <<users, loans, invitations, idem, ach, payments, clock>>

AcceptUpdateParticipant(w) ==
    /\ req[w].pc = "ac_upd_part"
    /\ LET r == req[w]
       IN participants' =
            AcceptParticipant(participants, <<r.loan, Registered(r.uid)>>,
                              (CHOOSE p \in r.prow : TRUE).contribution_amount,
                              r.now)
    /\ req' = [req EXCEPT ![w].pc = "ac_upd_loan"]
    /\ UNCHANGED <<users, loans, invitations, idem, ach, payments, clock>>

AcceptUpdateLoan(w) ==
    /\ req[w].pc = "ac_upd_loan"
    /\ loans' = FundLoan(loans, req[w].loan, NewTotalFunded(req[w]),
                         NewLoanStatus(req[w]))
    /\ req' = [req EXCEPT ![w].pc = "ac_put_ach"]
    /\ UNCHANGED <<users, participants, invitations, idem, ach, payments, clock>>

AcceptPutAch(w) ==
    /\ req[w].pc = "ac_put_ach"
    /\ LET r == req[w]
       IN /\ ach' = PutItem(ach, "ach_details", [user_id |-> r.uid, loan_id |-> r.loan,
                                          created_at |-> r.now])
          /\ req' = Latest(w, [req EXCEPT ![w] =
                       Done(r, SuccessResponse(
                                 [loan_id |-> r.loan, status |-> "ACCEPTED",
                                  loan_status |-> NewLoanStatus(r),
                                  contribution_amount |->
                                      (CHOOSE p \in r.prow : TRUE).contribution_amount,
                                  accepted_at |-> r.now]))])
    /\ UNCHANGED <<users, loans, participants, invitations, idem, payments, clock>>

\* As AcceptLoanAtomicFails, the participant set back to the row that was
\* read before the failure is reported.
AcceptLoanAtomicRollsBack(w) ==
    /\ req[w].pc \in {"ac_upd_part", "ac_upd_loan", "ac_put_ach"}
    /\ LET r == req[w]
       IN /\ participants' =
                {p \in participants : PartKey(p) # <<r.loan, Registered(r.uid)>>}
                    \cup r.prow
          /\ req' = Latest(w, [req EXCEPT ![w] =
                       Done(r, ErrorResponse(400, "VALIDATION_ERROR"))])
    /\ UNCHANGED <<users, loans, invitations, idem, ach, payments, clock>>

\* One of the three storage calls of accept_loan_atomic raises: the except
\* clause returns success False and the handler answers 400; nothing is
\* undone.
AcceptLoanAtomicFails(w) ==
    /\ req[w].pc \in {"ac_upd_part", "ac_upd_loan", "ac_put_ach"}
    /\ req' = Latest(w, [req EXCEPT ![w] =
                 Done(req[w], ErrorResponse(400, "VALIDATION_ERROR"))])
    /\ UNCHANGED <<tables, clock>>

(***************************************************************************)
(* loan_handler: getLoanDetails (handle_get_loan_details) and the privacy  *)
(* projection.  A user's display name is modelled by the address it was    *)
(* registered with; the amortised payment figures are left out.            *)
(***************************************************************************)
LenderOrd(p) == IF IsPending(p.lender_id) THEN 500 ELSE p.lender_id.uid

\* query_items on the participants of one loan: in sort-key order.
RECURSIVE QueryParticipants(_)
QueryParticipants(S) ==
    IF S = {} THEN <<>>
    ELSE LET m == CHOOSE y \in S : \A z \in S : LenderOrd(y) <= LenderOrd(z)
         IN <<m>> \o QueryParticipants(S \ {m})

Enrich(p, lender_map, ach_map, is_borrower) ==
    IF IsPending(p.lender_id)
    THEN [lender_id |-> p.lender_id,
          lender_name |-> [k |-> "pending", v |-> p.lender_id.email],
          lender_email |-> p.lender_id.email,
          contribution_amount |-> p.contribution_amount, status |-> p.status,
          invited_at |-> p.invited_at, responded_at |-> p.responded_at,
          total_paid |-> None, remaining_balance |-> None, ach_details |-> {}]
    ELSE LET lender == {u \in lender_map : u.user_id = p.lender_id.uid}
         IN [lender_id |-> p.lender_id,
             lender_name |-> IF lender = {} THEN [k |-> "unknown", v |-> ""]
                             ELSE [k |-> "user", v |-> (CHOOSE u \in lender : TRUE).email],
             lender_email |-> IF lender = {} THEN "Unknown"
                              ELSE (CHOOSE u \in lender : TRUE).email,
             contribution_amount |-> p.contribution_amount, status |-> p.status,
             invited_at |-> p.invited_at, responded_at |-> p.responded_at,
             total_paid |-> IF p.total_paid = None THEN 0 ELSE p.total_paid,
             remaining_balance |-> IF p.remaining_balance = None
                                   THEN p.contribution_amount
                                   ELSE p.remaining_balance,
             ach_details |-> IF p.status = "ACCEPTED" /\ is_borrower
                             THEN {a \in ach_map : a.user_id = p.lender_id.uid}
                             ELSE {}]

IsRequester(lender_id, user_id, user_email) ==
    lender_id = Registered(user_id) \/ lender_id = PendingId(user_email)

\* The last matching entry of the list wins.
RECURSIVE UserParticipation(_, _, _)
UserParticipation(enriched, user_id, user_email) ==
    IF enriched = <<>> THEN {}
    ELSE LET rest == UserParticipation(Tail(enriched), user_id, user_email)
         IN IF rest # {} THEN rest
            ELSE IF IsRequester(Head(enriched).lender_id, user_id, user_email)
            THEN {Head(enriched)}
            ELSE {}

\* As _enrich_participant_data, without the role filter on the list.
EnrichUnfiltered(plist, loan_id, user_id, user_email, is_borrower, U, A) ==
    LET lender_map == {u \in U : \E k \in 1..Len(plist) :
                                   plist[k].lender_id = Registered(u.user_id)}
        all_participants ==
            [k \in 1..Len(plist) |-> Enrich(plist[k], lender_map, {}, is_borrower)]
    IN [granted |-> TRUE,
        user_participation |->
            IF is_borrower THEN {}
            ELSE UserParticipation(all_participants, user_id, user_email),
        participants |-> all_participants]

_enrich_participant_data(plist, loan_id, user_id, user_email, is_borrower, U, A) ==
    LET real_lender_ids == {plist[k].lender_id.uid :
                               k \in {j \in 1..Len(plist) : ~ IsPending(plist[j].lender_id)}}
        lender_map == {u \in U : u.user_id \in real_lender_ids}
        ach_map == IF is_borrower
                   THEN {a \in A : a.loan_id = loan_id /\ a.user_id \in real_lender_ids}
                   ELSE {}
        all_participants ==
            [k \in 1..Len(plist) |-> Enrich(plist[k], lender_map, ach_map, is_borrower)]
    IN IF is_borrower
       THEN [granted |-> TRUE, user_participation |-> {},
             participants |-> all_participants]
       ELSE [granted |-> TRUE,
             user_participation |->
                 UserParticipation(all_participants, user_id, user_email),
             participants |-> <<>>]

AccessDenied == [granted |-> FALSE, user_participation |-> {}, participants |-> <<>>]

\* As get_filtered_participant_data_with_access_check, without the check.
EnrichWithoutAccessCheck(P, loan_id, user_id, user_email, is_borrower, U, A) ==
    _enrich_participant_data(QueryParticipants({p \in P : p.loan_id = loan_id}),
                             loan_id, user_id, user_email, is_borrower, U, A)

get_filtered_participant_data_with_access_check(P, loan_id, user_id, user_email, is_borrower, U, A) ==
    LET plist == QueryParticipants({p \in P : p.loan_id = loan_id})
        has_access == \E k \in 1..Len(plist) :
                         IsRequester(plist[k].lender_id, user_id, user_email)
    IN IF ~ is_borrower /\ ~ has_access THEN AccessDenied
       ELSE _enrich_participant_data(plist, loan_id, user_id, user_email,
                                     is_borrower, U, A)

calculate_basic_funding_progress(total_amount, total_funded) ==
    [total_amount |-> total_amount, total_funded |-> total_funded,
     remaining_amount |-> total_amount - total_funded,
     is_fully_funded |-> total_funded >= total_amount]

UserParticipationWithPayments(up) ==
    [lender_id |-> up.lender_id, contribution_amount |-> up.contribution_amount,
     status |-> up.status, invited_at |-> up.invited_at,
     responded_at |-> up.responded_at,
     total_paid |-> IF up.total_paid = None THEN 0 ELSE up.total_paid,
     remaining_balance |-> IF up.remaining_balance = None
                           THEN up.contribution_amount ELSE up.remaining_balance]

LenderPaymentDetail(p) ==
    [lender_id |-> p.lender_id, lender_name |-> p.lender_name,
     lender_email |-> p.lender_email,
     contribution_amount |-> p.contribution_amount, status |-> p.status,
     ach_details |-> p.ach_details]

BorrowerPaymentDetails(enriched) ==
    {[lender_payments |->
         SelectSeq(enriched, LAMBDA p : ~ IsPending(p.lender_id))]}

\* The response of handle_get_loan_details for requester (user_id, user_email).
LoanDetails(L, P, U, A, loan_id, user_id, user_email) ==
    LET found == GetItem(L, "loans", loan_id)
        loan == CHOOSE l \in found : TRUE
        borrower == GetItem(U, "users", loan.borrower_id)
        is_borrower == user_id = loan.borrower_id
        participant_data ==
            get_filtered_participant_data_with_access_check(
                P, loan_id, user_id, user_email, is_borrower, U, A)
    IN IF found = {} THEN ErrorResponse(404, "NOT_FOUND")
       ELSE IF ~ participant_data.granted THEN ErrorResponse(403, "FORBIDDEN")
       ELSE SuccessResponse(
              [loan_id |-> loan.loan_id, borrower_id |-> loan.borrower_id,
               borrower_name |-> IF borrower = {} THEN "Unknown"
                                 ELSE (CHOOSE u \in borrower : TRUE).email,
               amount |-> loan.amount, status |-> loan.status,
               total_funded |-> loan.total_funded, created_at |-> loan.created_at,
               user_participation |->
                   IF ~ is_borrower
                   THEN {UserParticipationWithPayments(up) :
                            up \in participant_data.user_participation}
                   ELSE {},
               borrower_payment_details |->
                   IF is_borrower
                   THEN {[lender_payments |->
                            [k \in 1..Len(d.lender_payments) |->
                                LenderPaymentDetail(d.lender_payments[k])]] :
                            d \in BorrowerPaymentDetails(participant_data.participants)}
                   ELSE {},
               participants |-> participant_data.participants,
               funding_progress |->
                   calculate_basic_funding_progress(loan.amount, loan.total_funded)])

StartGetLoanDetails(w, u, loan_id) ==
    /\ ~ Busy(w)
    /\ LET r == [NewReq("getLoanDetails") EXCEPT !.uid = u.user_id,
                                                 !.email = u.email, !.loan = loan_id]
       IN req' = Latest(w, [req EXCEPT ![w] =
                    Done(r, LoanDetails(loans, participants, users, ach, loan_id,
                                        u.user_id, u.email))])
    /\ UNCHANGED <<tables, clock>>

(***************************************************************************)
(* loan_handler: the borrower's participant list, fetched row by row       *)
(* (get_loan_participants) and in batches                                  *)
(* (batch_enrich_loans_with_participants).                                 *)
(***************************************************************************)
\* DynamoDBHelper.batch_get_items: the rows of table t that have one of the keys.
batch_get_items(T, t, keys) == {x \in T : KeyOf(t, x) \in keys}

\* One entry of get_loan_participants: a get_item for the user and, for an
\* ACCEPTED row, a get_item for the ACH record of (lender, loan).
EnrichPerRow(p, loan_id, U, A) ==
    IF IsPending(p.lender_id)
    THEN [lender_id |-> p.lender_id,
          lender_name |-> [k |-> "pending", v |-> p.lender_id.email],
          lender_email |-> p.lender_id.email,
          contribution_amount |-> p.contribution_amount, status |-> p.status,
          invited_at |-> p.invited_at, responded_at |-> p.responded_at,
          total_paid |-> None, remaining_balance |-> None, ach_details |-> {}]
    ELSE LET lender == GetItem(U, "users", p.lender_id.uid)
         IN [lender_id |-> p.lender_id,
             lender_name |-> IF lender = {} THEN [k |-> "unknown", v |-> ""]
                             ELSE [k |-> "user", v |-> (CHOOSE u \in lender : TRUE).email],
             lender_email |-> IF lender = {} THEN "Unknown"
                              ELSE (CHOOSE u \in lender : TRUE).email,
             contribution_amount |-> p.contribution_amount, status |-> p.status,
             invited_at |-> p.invited_at, responded_at |-> p.responded_at,
             total_paid |-> IF p.total_paid = None THEN 0 ELSE p.total_paid,
             remaining_balance |-> IF p.remaining_balance = None
                                   THEN p.contribution_amount
                                   ELSE p.remaining_balance,
             ach_details |-> IF p.status = "ACCEPTED"
                             THEN GetItem(A, "ach_details", <<p.lender_id.uid, loan_id>>)
                             ELSE {}]

get_loan_participants(P, loan_id, U, A) ==
    LET plist == QueryParticipants({p \in P : p.loan_id = loan_id})
    IN [k \in 1..Len(plist) |-> EnrichPerRow(plist[k], loan_id, U, A)]

\* One entry of batch_enrich_loans_with_participants: lookups in the two maps,
\* the ACH map keyed by (user_id, loan_id).
EnrichFromMaps(p, loan_id, lender_map, ach_map) ==
    IF IsPending(p.lender_id)
    THEN [lender_id |-> p.lender_id,
          lender_name |-> [k |-> "pending", v |-> p.lender_id.email],
          lender_email |-> p.lender_id.email,
          contribution_amount |-> p.contribution_amount, status |-> p.status,
          invited_at |-> p.invited_at, responded_at |-> p.responded_at,
          total_paid |-> None, remaining_balance |-> None, ach_details |-> {}]
    ELSE LET lender == {u \in lender_map : u.user_id = p.lender_id.uid}
         IN [lender_id |-> p.lender_id,
             lender_name |-> IF lender = {} THEN [k |-> "unknown", v |-> ""]
                             ELSE [k |-> "user", v |-> (CHOOSE u \in lender : TRUE).email],
             lender_email |-> IF lender = {} THEN "Unknown"
                              ELSE (CHOOSE u \in lender : TRUE).email,
             contribution_amount |-> p.contribution_amount, status |-> p.status,
             invited_at |-> p.invited_at, responded_at |-> p.responded_at,
             total_paid |-> IF p.total_paid = None THEN 0 ELSE p.total_paid,
             remaining_balance |-> IF p.remaining_balance = None
                                   THEN p.contribution_amount
                                   ELSE p.remaining_balance,
             ach_details |-> IF p.status = "ACCEPTED"
                             THEN {a \in ach_map : <<a.user_id, a.loan_id>> =
                                                       <<p.lender_id.uid, loan_id>>}
                             ELSE {}]

\* As batch_enrich_loans_with_participants, the ACH map keyed by the user alone.
BatchEnrichAchByUser(L, P, U, A) ==
    LET all_real_lender_ids ==
            {p.lender_id.uid : p \in {q \in P : q.loan_id \in Range(L)
                                                  /\ ~ IsPending(q.lender_id)}}
        lender_map == batch_get_items(U, "users", all_real_lender_ids)
        ach_map == batch_get_items(A, "ach_details", all_real_lender_ids \X Range(L))
    IN [i \in 1..Len(L) |->
          LET plist == QueryParticipants({p \in P : p.loan_id = L[i]})
          IN [loan_id |-> L[i],
              participant_count |-> Len(plist),
              participants |->
                  [k \in 1..Len(plist) |->
                      Enrich(plist[k], lender_map, ach_map, TRUE)]]]

\* L is the list of the ids of the loans to enrich.
batch_enrich_loans_with_participants(L, P, U, A) ==
    LET all_real_lender_ids ==
            {p.lender_id.uid : p \in {q \in P : q.loan_id \in Range(L)
                                                  /\ ~ IsPending(q.lender_id)}}
        lender_map == batch_get_items(U, "users", all_real_lender_ids)
        ach_map == batch_get_items(A, "ach_details", all_real_lender_ids \X Range(L))
    IN [i \in 1..Len(L) |->
          LET plist == QueryParticipants({p \in P : p.loan_id = L[i]})
          IN [loan_id |-> L[i],
              participant_count |-> Len(plist),
              participants |->
                  [k \in 1..Len(plist) |->
                      EnrichFromMaps(plist[k], L[i], lender_map, ach_map)]]]

\* The three ways to the list, each applied to the tables as they are.
ApplyEnrichParticipantData(w, loan_id) ==
    /\ ~ Busy(w)
    /\ LET r == [NewReq("enrichParticipantData") EXCEPT !.loan = loan_id]
           plist == QueryParticipants({p \in participants : p.loan_id = loan_id})
       IN req' = Latest(w, [req EXCEPT ![w] =
                    Done(r, SuccessResponse(
                              [participants |->
                                  _enrich_participant_data(plist, loan_id, 0, "", TRUE,
                                                           users, ach).participants]))])
    /\ UNCHANGED <<tables, clock>>

ApplyBatchEnrichLoans(w, L) ==
    /\ ~ Busy(w)
    /\ LET r == NewReq("batchEnrichLoans")
       IN req' = Latest(w, [req EXCEPT ![w] =
                    Done(r, SuccessResponse(
                              [loans |-> batch_enrich_loans_with_participants(
                                             L, participants, users, ach)]))])
    /\ UNCHANGED <<tables, clock>>

ApplyGetLoanParticipants(w, loan_id) ==
    /\ ~ Busy(w)
    /\ LET r == [NewReq("getLoanParticipants") EXCEPT !.loan = loan_id]
       IN req' = Latest(w, [req EXCEPT ![w] =
                    Done(r, SuccessResponse(
                              [participants |->
                                  get_loan_participants(participants, loan_id,
                                                        users, ach)]))])
    /\ UNCHANGED <<tables, clock>>

(***************************************************************************)
(* payment_handler: submitPayment, approvePayment, rejectPayment.  The     *)
(* receipts (S3) are left out but for the payment id a receipt key names.  *)
(***************************************************************************)
TotalPaid(p) == IF p.total_paid = None THEN 0 ELSE p.total_paid

NewPayment(r, payment_id) ==
    [payment_id |-> payment_id, loan_id |-> r.loan, borrower_id |-> r.uid,
     lender_id |-> r.lender, amount |-> r.amount, status |-> "PENDING",
     rejection_reason |-> "", created_at |-> r.now, updated_at |-> r.now]

\* POST /payments.  receipt_id is the payment id inside the receipt_key the
\* client sent (0: no receipt_key, the id is generated).
StartSubmitPayment(w, u, loan_id, lender_id, amount, receipt_id) ==
    /\ ~ Busy(w)
    /\ LET r == [NewReq("submitPayment") EXCEPT !.uid = u.user_id, !.loan = loan_id,
                                                !.lender = lender_id,
                                                !.amount = amount, !.pid = receipt_id]
           loan == GetItem(loans, "loans", loan_id)
       IN req' = Latest(w, [req EXCEPT ![w] =
                    IF amount <= 0 THEN Done(r, ErrorResponse(400, "VALIDATION_ERROR"))
                    ELSE IF loan = {} THEN Done(r, ErrorResponse(404, "NOT_FOUND"))
                    ELSE IF \E l \in loan : l.borrower_id # u.user_id
                    THEN Done(r, ErrorResponse(403, "FORBIDDEN"))
                    ELSE [r EXCEPT !.pc = "sp_get_part"]])
    /\ UNCHANGED <<tables, clock>>

\* As SubmitGetParticipant, without the cap at the remaining balance.
SubmitGetParticipantUncapped(w) ==
    /\ req[w].pc = "sp_get_part"
    /\ LET r == req[w]
           participant == GetItem(participants, "loan_participants", <<r.loan, r.lender>>)
       IN req' = Latest(w, [req EXCEPT ![w] =
                    IF participant = {} THEN Done(r, ErrorResponse(404, "NOT_FOUND"))
                    ELSE IF \E p \in participant : p.status # "ACCEPTED"
                    THEN Done(r, ErrorResponse(400, "VALIDATION_ERROR"))
                    ELSE [r EXCEPT !.pc = "sp_put"]])
    /\ UNCHANGED <<tables, clock>>

SubmitGetParticipant(w) ==
    /\ req[w].pc = "sp_get_part"
    /\ LET r == req[w]
           participant == GetItem(participants, "loan_participants", <<r.loan, r.lender>>)
       IN req' = Latest(w, [req EXCEPT ![w] =
                    IF participant = {} THEN Done(r, ErrorResponse(404, "NOT_FOUND"))
                    ELSE IF \E p \in participant : p.status # "ACCEPTED"
                    THEN Done(r, ErrorResponse(400, "VALIDATION_ERROR"))
                    ELSE IF \E p \in participant :
                               r.amount > p.contribution_amount - TotalPaid(p)
                    THEN Done(r, ErrorResponse(400, "VALIDATION_ERROR"))
                    ELSE [r EXCEPT !.pc = "sp_put"]])
    /\ UNCHANGED <<tables, clock>>

SubmitPutPayment(w) ==
    /\ req[w].pc = "sp_put"
    /\ LET r == req[w]
           payment_id == IF r.pid # 0 THEN r.pid ELSE Cardinality(payments) + 1
           payment == NewPayment(r, payment_id)
       IN /\ payments' = PutItem(payments, "payments", payment)
          /\ req' = Latest(w, [req EXCEPT ![w] =
                       Done([r EXCEPT !.pid = payment_id],
                            SuccessResponse([payment |-> payment]))])
    /\ UNCHANGED <<users, loans, participants, invitations, idem, ach, clock>>

\* update_item on a payment row: SET status, updated_at (and the reason).
ResolvePayment(P, payment_id, status, reason, at) ==
    {IF x.payment_id = payment_id
     THEN [x EXCEPT !.status = status, !.updated_at = at,
                    !.rejection_reason = IF status = "REJECTED" THEN reason ELSE @]
     ELSE x : x \in P}

\* The checks approve and reject make on the payment they read.
PaymentRefusal(payment, u) ==
    IF payment = {} THEN ErrorResponse(404, "NOT_FOUND")
    ELSE IF \E x \in payment : x.lender_id # Registered(u.user_id)
    THEN ErrorResponse(403, "FORBIDDEN")
    ELSE IF \E x \in payment : x.status # "PENDING"
    THEN ErrorResponse(400, "VALIDATION_ERROR")
    ELSE NoResp

\* PUT /payments/{payment_id}/approve.
StartApprovePayment(w, u, payment_id) ==
    /\ ~ Busy(w)
    /\ LET r == [NewReq("approvePayment") EXCEPT !.uid = u.user_id, !.pid = payment_id]
           payment == GetItem(payments, "payments", payment_id)
       IN req' = Latest(w, [req EXCEPT ![w] =
                    IF PaymentRefusal(payment, u) # NoResp
                    THEN Done(r, PaymentRefusal(payment, u))
                    ELSE [r EXCEPT !.pc = "ap_upd_pay", !.pay = payment]])
    /\ UNCHANGED <<tables, clock>>

ApproveUpdatePayment(w) ==
    /\ req[w].pc = "ap_upd_pay"
    /\ payments' = ResolvePayment(payments, req[w].pid, "APPROVED", "", req[w].now)
    /\ req' = [req EXCEPT ![w].pc = "ap_get_part"]
    /\ UNCHANGED <<users, loans, participants, invitations, idem, ach, clock>>

PaymentApproved(r) == SuccessResponse([payment_id |-> r.pid])

ApproveGetParticipant(w) ==
    /\ req[w].pc = "ap_get_part"
    /\ LET r == req[w]
           payment == CHOOSE x \in r.pay : TRUE
           participant == GetItem(participants, "loan_participants",
                                  <<payment.loan_id, payment.lender_id>>)
       IN req' = Latest(w, [req EXCEPT ![w] =
                    IF participant = {} THEN Done(r, PaymentApproved(r))
                    ELSE [r EXCEPT !.pc = "ap_upd_part", !.prow = participant]])
    /\ UNCHANGED <<tables, clock>>

\* update_item on the participant row: SET total_paid, remaining_balance.
PayParticipant(P, key, total_paid, remaining_balance) ==
    {IF PartKey(p) = key
     THEN [p EXCEPT !.total_paid = total_paid, !.remaining_balance = remaining_balance]
     ELSE p : p \in P}

\* As ApproveUpdateParticipant, with the remaining balance left as stored.
ApproveUpdateParticipantKeepBalance(w) ==
    /\ req[w].pc = "ap_upd_part"
    /\ LET r == req[w]
           payment == CHOOSE x \in r.pay : TRUE
           participant == CHOOSE p \in r.prow : TRUE
       IN /\ participants' = PayParticipant(participants, PartKey(participant),
                                            TotalPaid(participant) + payment.amount,
                                            participant.remaining_balance)
          /\ req' = Latest(w, [req EXCEPT ![w] = Done(r, PaymentApproved(r))])
    /\ UNCHANGED <<users, loans, invitations, idem, ach, payments, clock>>

ApproveUpdateParticipant(w) ==
    /\ req[w].pc = "ap_upd_part"
    /\ LET r == req[w]
           payment == CHOOSE x \in r.pay : TRUE
           participant == CHOOSE p \in r.prow : TRUE
           new_total_paid == TotalPaid(participant) + payment.amount
           new_remaining == participant.contribution_amount - new_total_paid
       IN /\ participants' = PayParticipant(participants, PartKey(participant),
                                            new_total_paid, new_remaining)
          /\ req' = Latest(w, [req EXCEPT ![w] = Done(r, PaymentApproved(r))])
    /\ UNCHANGED <<users, loans, invitations, idem, ach, payments, clock>>

\* PUT /payments/{payment_id}/reject.
StartRejectPayment(w, u, payment_id, rejection_reason) ==
    /\ ~ Busy(w)
    /\ LET r == [NewReq("rejectPayment") EXCEPT !.uid = u.user_id, !.pid = payment_id,
                                                !.email = rejection_reason]
           payment == GetItem(payments, "payments", payment_id)
       IN req' = Latest(w, [req EXCEPT ![w] =
                    IF rejection_reason = ""
                    THEN Done(r, ErrorResponse(400, "VALIDATION_ERROR"))
                    ELSE IF PaymentRefusal(payment, u) # NoResp
                    THEN Done(r, PaymentRefusal(payment, u))
                    ELSE [r EXCEPT !.pc = "rj_upd", !.pay = payment]])
    /\ UNCHANGED <<tables, clock>>

\* As RejectUpdatePayment, with the amount given back to the participant.
RejectUpdatePaymentAndLedger(w) ==
    /\ req[w].pc = "rj_upd"
    /\ LET r == req[w]
           payment == CHOOSE x \in r.pay : TRUE
       IN /\ payments' = ResolvePayment(payments, r.pid, "REJECTED", r.email, r.now)
          /\ participants' =
               {IF PartKey(p) = <<payment.loan_id, payment.lender_id>>
                THEN [p EXCEPT !.remaining_balance = @ + payment.amount]
                ELSE p : p \in participants}
          /\ req' = Latest(w, [req EXCEPT ![w] = Done(r, SuccessResponse([payment_id |-> r.pid]))])
    /\ UNCHANGED <<users, loans, invitations, idem, ach, clock>>

RejectUpdatePayment(w) ==
    /\ req[w].pc = "rj_upd"
    /\ LET r == req[w]
       IN /\ payments' = ResolvePayment(payments, r.pid, "REJECTED", r.email, r.now)
          /\ req' = Latest(w, [req EXCEPT ![w] = Done(r, SuccessResponse([payment_id |-> r.pid]))])
    /\ UNCHANGED <<users, loans, participants, invitations, idem, ach, clock>>

(***************************************************************************)
(* The privacy projection (getLoanDetails), one request at a time: while a *)
(* response is the last thing that happened, the tables are those it was   *)
(* computed from.                                                          *)
(***************************************************************************)
\* The address of the account behind the requester's token.
EmailOf(uid) == (CHOOSE u \in users : u.user_id = uid).email

\* The requester's own rows among the participants of a loan.
OwnRows(loan_id, uid) ==
    {p \in participants :
        /\ p.loan_id = loan_id
        /\ p.lender_id \in {Registered(uid), PendingId(EmailOf(uid))}}

BorrowerOf(loan_id) == (CHOOSE l \in loans : l.loan_id = loan_id).borrower_id

\* Worker w has just returned the response of a getLoanDetails request for
\* a loan that exists.
Viewed(w) ==
    /\ req[w].pc = "done"
    /\ req[w].kind = "getLoanDetails"
    /\ \E l \in loans : l.loan_id = req[w].loan

\* C5: the getLoanDetails response to a participant who is not the borrower,
\* on a loan with two or more participants, has an empty participants list,
\* no borrower_payment_details and one user_participation whose lender_id is
\* the requester's account id or the sentinel of the requester's address; no
\* row of another participant, no account and no ACH record enters it: the
\* response is the one computed from the loan row, the borrower's account
\* and the requester's own row alone.
C5_LenderViewOwnRowOnly ==
    \A w \in Workers :
        LET r == req[w]
            data == JsonLoads(r.resp.body).data
        IN (/\ Viewed(w)
            /\ r.uid # BorrowerOf(r.loan)
            /\ OwnRows(r.loan, r.uid) # {}
            /\ Cardinality({p \in participants : p.loan_id = r.loan}) >= 2)
           => /\ r.resp.code = 200
              /\ data.participants = <<>>
              /\ data.borrower_payment_details = {}
              /\ Cardinality(data.user_participation) = 1
              /\ \A up \in data.user_participation :
                    up.lender_id \in {Registered(r.uid), PendingId(EmailOf(r.uid))}
              /\ r.resp = LoanDetails(loans, OwnRows(r.loan, r.uid),
                                      GetItem(users, "users", BorrowerOf(r.loan)),
                                      {}, r.loan, r.uid, EmailOf(r.uid))

\* A lender has viewed a loan on which another lender has accepted and left
\* ACH details.
C5_Witness ==
    \E w \in Workers :
        /\ Viewed(w)
        /\ req[w].uid # BorrowerOf(req[w].loan)
        /\ OwnRows(req[w].loan, req[w].uid) # {}
        /\ req[w].resp.code = 200
        /\ \E p \in participants :
              /\ p.loan_id = req[w].loan
              /\ p \notin OwnRows(req[w].loan, req[w].uid)
              /\ p.status = "ACCEPTED"
              /\ \E a \in ach : a.loan_id = p.loan_id /\ a.user_id = p.lender_id.uid

\* C6: getLoanDetails for a requester who is neither the borrower of the
\* loan nor the identity of one of its participant rows returns FORBIDDEN,
\* and the response carries the error alone: no loan, participant or
\* funding data.
C6_OutsiderForbidden ==
    \A w \in Workers :
        (/\ Viewed(w)
         /\ req[w].uid # BorrowerOf(req[w].loan)
         /\ OwnRows(req[w].loan, req[w].uid) = {})
        => /\ req[w].resp.code = 403
           /\ JsonLoads(req[w].resp.body) = [success |-> FALSE, error |-> "FORBIDDEN"]

\* An account that is no party to a loan with participants has asked for it.
C6_Witness ==
    \E w \in Workers :
        /\ Viewed(w)
        /\ req[w].uid # BorrowerOf(req[w].loan)
        /\ OwnRows(req[w].loan, req[w].uid) = {}
        /\ \E p \in participants : p.loan_id = req[w].loan /\ p.status = "ACCEPTED"
        /\ req[w].resp.code = 403

(***************************************************************************)
(* The idempotency guard of createLoan, one request at a time.             *)
(***************************************************************************)
\* Worker w takes in a createLoan request in this step.
CreateLoanArrives(w) ==
    /\ ~ Busy(w)
    /\ req'[w] # req[w]
    /\ req'[w].kind = "createLoan"

\* C7: once a createLoan request with key K has succeeded and stored its
\* record, the record holds the status and body that request returned, it is
\* not written again, and every later createLoan request carrying K,
\* whatever its payload, returns that status and body and writes nothing.
C7_ReplayReturnsFirstResponse ==
    [][\A w \in Workers :
          /\ (req[w].pc = "idem_put" /\ req[w].kind = "createLoan") =>
                /\ req'[w].pc = "done"
                /\ \E rec \in idem' :
                      /\ rec.idempotency_key = req[w].key
                      /\ rec.status_code = 201
                      /\ CachedResponse(rec) = req'[w].resp
          /\ \A rec \in idem :
                (rec.status_code = 201 /\ CreateLoanArrives(w)
                    /\ req'[w].key = rec.idempotency_key) =>
                /\ req'[w].pc = "done"
                /\ req'[w].resp = CachedResponse(rec)
                /\ req'[w].resp.code = 201
                /\ tables' = tables]_vars

\* A createLoan request has been answered from the record of an earlier one.
C7_Witness ==
    \E w \in Workers :
        /\ req[w].pc = "done"
        /\ req[w].kind = "createLoan"
        /\ req[w].hit
        /\ req[w].resp.code = 201
        /\ Cardinality(loans) = 1
        /\ \E rec \in idem : rec.idempotency_key = req[w].key

\* C38: a stored response is returned only to the user and the endpoint
\* that produced it: a createLoan or addLenders request answered from the
\* record of its key is a request of the user who stored the record, and
\* the record was stored by the same endpoint (createLoan stores status
\* 201, addLenders 200).
C38_CachedResponseOnlyToItsOwner ==
    [][\A w \in Workers : \A rec \in idem :
          (/\ ~ Busy(w) /\ req'[w] # req[w]
           /\ req'[w].kind \in {"createLoan", "addLenders"}
           /\ req'[w].hit
           /\ req'[w].key = rec.idempotency_key) =>
              /\ rec.user_id = req'[w].uid
              /\ rec.status_code = (IF req'[w].kind = "createLoan" THEN 201 ELSE 200)]_vars

(***************************************************************************)
(* Activation of an invitee, one request at a time.                        *)
(***************************************************************************)
SentinelRowsOf(email) == {p \in participants : p.lender_id = PendingId(email)}

PendingInvitationsOf(email) ==
    {v \in invitations : v.invitee_email = email /\ v.status = "PENDING"}

\* Row p stands for sentinel row s under account uid.
Preserved(s, p, uid) ==
    /\ p.loan_id = s.loan_id
    /\ p.lender_id = Registered(uid)
    /\ p.contribution_amount = s.contribution_amount
    /\ p.status = s.status
    /\ p.invited_at = s.invited_at

\* What holds of the ledger while registration w replaces the sentinel rows
\* it scanned: the rows before the current one are replaced, the rows after
\* it are still there, and there is no sentinel row of the address it did
\* not scan.
MigrationInProgress(w) ==
    LET r == req[w]
    IN /\ \A k \in 1..Len(r.parts) :
             /\ r.parts[k].lender_id = PendingId(r.email)
             /\ k < r.i =>
                   /\ r.parts[k] \notin participants
                   /\ \E p \in participants : Preserved(r.parts[k], p, r.uid)
             /\ (k > r.i \/ (k = r.i /\ r.pc = "act_del")) =>
                   r.parts[k] \in participants
       /\ SentinelRowsOf(r.email) \subseteq Range(r.parts)

\* What holds once registration w has returned.
RegistrationComplete(w) ==
    LET uid == req[w].uid
        email == EmailOf(uid)
    IN /\ SentinelRowsOf(email) = {}
       /\ PendingInvitationsOf(email) = {}
       /\ \A v \in invitations :
             v.invitee_email = email =>
               /\ v.status = "ACTIVATED"
               /\ \E p \in participants :
                     p.loan_id = v.loan_id /\ p.lender_id = Registered(uid)

\* C9: when an invitee with sentinel rows registers, each sentinel row, on
\* every loan, is replaced by a row keyed by the new account id with the
\* contribution_amount, status and invited_at of the sentinel row, and once
\* registration has returned no sentinel row of the address is left and no
\* invitation for it is PENDING.
C9_RegistrationMigratesEverySentinel ==
    /\ [](\A w \in Workers :
            /\ (req[w].kind = "register" /\ req[w].pc \in {"act_del", "act_put"})
                  => MigrationInProgress(w)
            /\ (req[w].kind = "register" /\ req[w].pc = "done"
                    /\ req[w].resp.code = 201)
                  => RegistrationComplete(w))
    /\ [][\A w \in Workers :
            (req[w].kind = "register" /\ req[w].pc = "act_put"
                /\ req'[w] # req[w]) =>
              /\ \E p \in participants' :
                    Preserved(req[w].parts[req[w].i], p, req[w].uid)
              /\ {<<q.loan_id, q.lender_id>> : q \in participants'} =
                    {<<q.loan_id, q.lender_id>> : q \in participants}
                        \cup {<<req[w].parts[req[w].i].loan_id, Registered(req[w].uid)>>}]_vars

\* An invitee of two loans has registered after the clock moved on: two rows
\* carry the new account id and the time of the invitation.
C9_Witness ==
    \E w \in Workers :
        /\ req[w].kind = "register"
        /\ req[w].pc = "done"
        /\ req[w].resp.code = 201
        /\ \E p, q \in participants :
              /\ p.loan_id # q.loan_id
              /\ p.lender_id = Registered(req[w].uid)
              /\ q.lender_id = Registered(req[w].uid)
              /\ p.updated_at # None /\ q.updated_at # None
              /\ p.invited_at < p.updated_at
        /\ Cardinality({v \in invitations :
                           v.invitee_email = EmailOf(req[w].uid)
                           /\ v.status = "ACTIVATED"}) = 2

\* The ledger after the activation steps run for (email, uid) at time at.
Activated(P, I, email, uid, at) ==
    [participants |-> update_participant_records(P, email, uid, at),
     invitations |->
         activate_invitations(I, SortInvs(check_pending_invitations(I, email)), at)]

InvitationStatuses(I) == {<<v.invitation_id, v.status>> : v \in I}

InvitedEmails == {"a", "b", "c", "d"}

\* C10: in every ledger state, for every address and account id, the
\* activation steps run twice in a row (the second time on the invitations
\* then pending, or on the same list of invitations again) leave the
\* participant set and the invitation statuses that one run leaves.
C10_ActivationIdempotent ==
    \A email \in InvitedEmails, uid \in 1..(Cardinality(users) + 1),
       t1 \in 0..MaxTime, t2 \in 0..MaxTime :
        LET pending == SortInvs(check_pending_invitations(invitations, email))
            once == Activated(participants, invitations, email, uid, t1)
            twice == Activated(once.participants, once.invitations, email, uid, t2)
            again == activate_invitations(once.invitations, pending, t2)
        IN t1 <= t2 =>
             /\ twice.participants = once.participants
             /\ InvitationStatuses(twice.invitations) = InvitationStatuses(once.invitations)
             /\ InvitationStatuses(again) = InvitationStatuses(once.invitations)

\* An address has sentinel rows on two loans and pending invitations, and
\* time has passed since it was invited: one run of the activation steps
\* changes the ledger.
C10_Witness ==
    \E email \in InvitedEmails :
        LET once == Activated(participants, invitations, email,
                              Cardinality(users) + 1, clock)
        IN /\ Cardinality(SentinelRowsOf(email)) = 2
           /\ Cardinality(PendingInvitationsOf(email)) = 2
           /\ clock > 0
           /\ once.participants # participants
           /\ once.invitations # invitations
           /\ \A w \in Workers : ~ Busy(w)

(***************************************************************************)
(* The funding ledger under concurrent requests.                           *)
(***************************************************************************)
ParticipantsOf(loan_id) == {p \in participants : p.loan_id = loan_id}

\* C1: for every loan, in every reachable state, the contribution_amount of
\* its participant rows (any status, sentinel or account) sum to at most
\* loan.amount, whatever createLoan and addLenders requests ran and however
\* they interleaved.
C1_ContributionsWithinAmount ==
    \A l \in loans : SumSet(ParticipantsOf(l.loan_id)) <= l.amount

\* An accept request is between its first write (the participant row) and
\* its last (the ACH record).
MidAccept(w) == req[w].pc \in {"ac_upd_loan", "ac_put_ach"}

\* C2: in every state in which no accept request is between its first and
\* its last write, loan.total_funded is the sum of contribution_amount over
\* the loan's ACCEPTED participants, however the accept requests of
\* concurrent workers interleave.
C2_TotalFundedIsAcceptedSum ==
    (\A w \in Workers : ~ MidAccept(w)) =>
        \A l \in loans :
            l.total_funded =
                SumSet({p \in ParticipantsOf(l.loan_id) : p.status = "ACCEPTED"})

\* C3: a loan's status goes from PENDING to ACTIVE only in a step that
\* leaves total_funded >= amount, and no step takes an ACTIVE loan back to
\* PENDING (so the change happens at most once).
C3_ActiveOnceAndForGood ==
    [][\A l \in loans : \A m \in loans' :
          m.loan_id = l.loan_id =>
            /\ (l.status = "PENDING" /\ m.status = "ACTIVE") =>
                  m.total_funded >= m.amount
            /\ l.status = "ACTIVE" => m.status = "ACTIVE"]_vars

\* C4: no step of any execution lowers a loan's stored total_funded.
C4_TotalFundedNeverDecreases ==
    [][\A l \in loans : \A m \in loans' :
          m.loan_id = l.loan_id => m.total_funded >= l.total_funded]_vars

\* Worker w is executing the operation of a request that carries a key.
Executing(w) == Busy(w) /\ req[w].key # 0

\* C8: an idempotency record is write-once: requests that carry the same
\* key never execute the operation twice (here: side by side, each having
\* looked the key up before the other stored it), and the status and body
\* of a stored record are never overwritten.
C8_RecordWriteOnce ==
    /\ [](\A v, w \in Workers :
            (v # w /\ Executing(v) /\ Executing(w)) => req[v].key # req[w].key)
    /\ [][\A rec \in idem : \E kept \in idem' :
            /\ kept.idempotency_key = rec.idempotency_key
            /\ kept.status_code = rec.status_code
            /\ kept.response_body = rec.response_body]_vars

(***************************************************************************)
(* Activation of an invitee while the invitation batch is running.         *)
(***************************************************************************)
\* C11: once every request has returned, an invitee whose invitation to a
\* loan has been activated by a registration or login has a participant row
\* on that loan under the account id (one, the key being unique) and no row
\* under pending:<email>, however the registration or login interleaved
\* with the createLoan or addLenders request that invited the address.
C11_OneRowPerActivatedInvitee ==
    (\A w \in Workers : ~ Busy(w)) =>
        \A u \in users : \A v \in invitations :
            (v.invitee_email = u.email /\ v.status = "ACTIVATED") =>
                /\ GetItem(participants, "loan_participants",
                           <<v.loan_id, PendingId(u.email)>>) = {}
                /\ GetItem(participants, "loan_participants",
                           <<v.loan_id, Registered(u.user_id)>>) # {}

(***************************************************************************)
(* Storage failures during the activation of an invitee.                   *)
(***************************************************************************)
\* C12: a register or login request that has passed validation and the
\* uniqueness or credential check returns success (201, resp. 200, with the
\* account), whichever storage call of the invitation lookup, the
\* activation, the lender flag or the row migration fails.
C12_ActivationFailureNeverBlocks ==
    [][\A w \in Workers :
          (/\ req[w].kind \in {"register", "login"}
           /\ Busy(w)
           /\ req'[w].pc = "done") =>
             /\ req'[w].resp.code = (IF req[w].kind = "register" THEN 201 ELSE 200)
             /\ JsonLoads(req'[w].resp.body).success]_vars

\* C35: the migration loses no participant: when update_participant_records
\* returns, every row its scan found is stored on the same loan with the
\* same contribution, under pending:<email> or under the account id (so the
\* loan has as many rows and the same contribution sum as before), also when
\* a storage call failed partway and the failure was passed over.
C35_MigrationKeepsEveryParticipant ==
    [][\A w \in Workers :
          (req[w].pc \in {"act_scan", "act_del", "act_put"} /\ req'[w].pc = "done") =>
              \A k \in 1..Len(req[w].parts) :
                  \E p \in participants' :
                      /\ p.loan_id = req[w].parts[k].loan_id
                      /\ p.lender_id \in {PendingId(req[w].email), Registered(req[w].uid)}
                      /\ p.contribution_amount = req[w].parts[k].contribution_amount]_vars

(***************************************************************************)
(* accept, one request at a time.                                          *)
(***************************************************************************)
\* The row of account uid on a loan, and the loan row.
RowOf(P, loan_id, uid) ==
    {p \in P : p.loan_id = loan_id /\ p.lender_id = Registered(uid)}

LoanRow(L, loan_id) == {l \in L : l.loan_id = loan_id}

FundedStatus(total_funded, amount) ==
    IF total_funded >= amount THEN "ACTIVE" ELSE "PENDING"

\* C13: an accept by a PENDING participant with contribution c on a PENDING
\* loan with stored total_funded t stores total_funded = t + c and status
\* ACTIVE if t + c >= amount, else PENDING, sets the participant ACCEPTED
\* and reports ACCEPTED and the stored loan status; with accepts one after
\* the other every loan then carries the sum of its ACCEPTED contributions
\* (amount 10000.00, lenders 5000.00 and 5000.00: PENDING with 5000.00 after
\* the first accept, ACTIVE with 10000.00 after the second).
C13_AcceptFundsLoan ==
    /\ [](\A l \in loans :
            LET sum == SumSet({p \in participants :
                                 p.loan_id = l.loan_id /\ p.status = "ACCEPTED"})
            IN (\A w \in Workers : req[w].pc \notin {"ac_upd_loan"}) =>
                  /\ l.total_funded = sum
                  /\ l.status = FundedStatus(sum, l.amount))
    /\ [][\A w \in Workers :
            /\ (req[w].kind = "accept" /\ loans' # loans) =>
                  \A l \in LoanRow(loans, req[w].loan) :
                  \A p \in RowOf(participants, req[w].loan, req[w].uid) :
                  \A m \in LoanRow(loans', req[w].loan) :
                      /\ l.status = "PENDING"
                      /\ p.status = "ACCEPTED"
                      /\ m.total_funded = l.total_funded + p.contribution_amount
                      /\ m.status = FundedStatus(m.total_funded, m.amount)
            /\ (req[w].kind = "accept" /\ req[w].pc = "ac_put_ach"
                    /\ req'[w] # req[w]) =>
                  /\ req'[w].resp.code = 200
                  /\ \A m \in LoanRow(loans', req[w].loan) :
                        /\ JsonLoads(req'[w].resp.body).data.loan_status = m.status
                        /\ JsonLoads(req'[w].resp.body).data.status = "ACCEPTED"
                  /\ \E a \in ach' :
                        a.user_id = req[w].uid /\ a.loan_id = req[w].loan]_vars

\* The second of two lenders of 5000.00 has accepted a loan of 10000.00 and
\* was told it is ACTIVE.
C13_Witness ==
    \E w \in Workers : \E l \in loans :
        /\ req[w].pc = "done" /\ req[w].kind = "accept"
        /\ req[w].resp.code = 200
        /\ JsonLoads(req[w].resp.body).data.loan_status = "ACTIVE"
        /\ l.loan_id = req[w].loan
        /\ l.amount = 1000000 /\ l.total_funded = 1000000 /\ l.status = "ACTIVE"
        /\ Cardinality({p \in participants :
                           /\ p.loan_id = l.loan_id
                           /\ p.status = "ACCEPTED"
                           /\ p.contribution_amount = 500000}) = 2

\* Worker w takes in an accept request in this step.
AcceptArrives(w) ==
    /\ ~ Busy(w)
    /\ req'[w] # req[w]
    /\ req'[w].kind = "accept"

\* C14: an accept request by a lender with no participant row under the
\* account id on the loan, or with a row that is not PENDING, returns
\* NOT_FOUND; an accept on a loan that is not PENDING returns a validation
\* error; in both cases the request ends there and no table changes.
C14_RefusedAcceptWritesNothing ==
    [][\A w \in Workers :
          /\ (/\ AcceptArrives(w)
              /\ \A p \in RowOf(participants, req'[w].loan, req'[w].uid) :
                    p.status # "PENDING") =>
                /\ req'[w].pc = "done"
                /\ req'[w].resp = ErrorResponse(404, "NOT_FOUND")
                /\ tables' = tables
          /\ (/\ req[w].kind = "accept" /\ req[w].pc = "ac_get_loan"
              /\ \E l \in LoanRow(loans, req[w].loan) : l.status # "PENDING") =>
                /\ req'[w].pc = "done"
                /\ req'[w].resp = ErrorResponse(400, "VALIDATION_ERROR")
                /\ tables' = tables]_vars

\* A lender whose row is PENDING has been refused on a loan that is ACTIVE,
\* and an accepted lender has been refused a second accept.
C14_Witness ==
    \E w \in Workers :
        /\ req[w].pc = "done" /\ req[w].kind = "accept"
        /\ req[w].resp.code = 400
        /\ \E l \in LoanRow(loans, req[w].loan) : l.status = "ACTIVE"
        /\ \E p \in RowOf(participants, req[w].loan, req[w].uid) :
              p.status = "PENDING"
        /\ ~ \E a \in ach : a.user_id = req[w].uid /\ a.loan_id = req[w].loan

(***************************************************************************)
(* addLenders: the requests that are turned away.                          *)
(***************************************************************************)
\* Worker w is inside an addLenders request of the loan's borrower, before
\* the request has written anything.
AddLendersChecking(w) ==
    /\ req[w].kind = "addLenders"
    /\ req[w].pc \in {"al_get_loan", "al_query", "al_batch"}
    /\ \E l \in LoanRow(loans, req[w].loan) : l.borrower_id = req[w].uid

\* The step of worker w writes nothing, and if it ends the request the
\* response is the validation error.
TurnedAway(w) ==
    /\ <<participants, invitations, idem>>' = <<participants, invitations, idem>>
    /\ req'[w].pc \in {"al_get_loan", "al_query", "al_batch", "done"}
    /\ req'[w].pc = "done" => req'[w].resp = ErrorResponse(400, "VALIDATION_ERROR")

\* The invitees of `lenders` would take the loan's invited total beyond its
\* amount.
OverLimit(loan_id, lenders) ==
    \E l \in LoanRow(loans, loan_id) :
        SumSet(ParticipantsOf(loan_id)) + SumSeq(lenders) > l.amount

\* The addresses that have a participant row on the loan: those of the
\* sentinel rows and those of the accounts of the other rows.
ExistingEmails(loan_id) ==
    {IF IsPending(p.lender_id) THEN p.lender_id.email ELSE EmailOf(p.lender_id.uid) : p \in ParticipantsOf(loan_id)}

\* C16: no step of a borrower's addLenders request whose invitees would take
\* the sum of the loan's participant contributions beyond loan.amount
\* writes to the participant, invitation or idempotency table or goes on to
\* the invitation batch, and the request ends with the validation error.
C16_OverLimitRejected ==
    [][\A w \in Workers :
          (AddLendersChecking(w) /\ OverLimit(req[w].loan, req[w].lenders)) =>
              TurnedAway(w)]_vars

\* An addLenders request with a key, over the limit for no other reason
\* than its total, has been answered; no record is stored under its key.
C16_Witness ==
    \E w \in Workers :
        /\ req[w].pc = "done" /\ req[w].kind = "addLenders" /\ ~ req[w].hit
        /\ req[w].key # 0 /\ GetItem(idem, "idempotency_keys", req[w].key) = {}
        /\ req[w].resp = ErrorResponse(400, "VALIDATION_ERROR")
        /\ \E l \in LoanRow(loans, req[w].loan) :
              l.borrower_id = req[w].uid /\ l.status = "PENDING"
        /\ Len(req[w].lenders) \in 1..MaxBatch
        /\ \A k \in 1..Len(req[w].lenders) : req[w].lenders[k].contribution_amount > 0
        /\ LenderEmails(Normalised(req[w].lenders)) \cap (ExistingEmails(req[w].loan) \cup {EmailOf(req[w].uid)}) = {}
        /\ OverLimit(req[w].loan, req[w].lenders)

AddLendersSucceeded(w) ==
    /\ req[w].pc = "done"
    /\ req[w].kind = "addLenders"
    /\ JsonLoads(req[w].resp.body).success

\* C18: an addLenders request, with or without an Idempotency-Key header,
\* gets a success response only if its caller is the borrower of the loan
\* it names; and a request that reaches the loan lookup as another caller,
\* or for a loan that is not PENDING, ends there with FORBIDDEN, resp. the
\* validation error, and writes nothing.
C18_OnlyBorrowerOfPendingLoanAdds ==
    /\ [](\A w \in Workers :
            AddLendersSucceeded(w) =>
                \E l \in LoanRow(loans, req[w].loan) : l.borrower_id = req[w].uid)
    /\ [][\A w \in Workers : \A l \in LoanRow(loans, req[w].loan) :
            (req[w].pc = "al_get_loan" /\ req'[w].pc # "al_get_loan") =>
               /\ l.borrower_id # req[w].uid =>
                     /\ req'[w].pc = "done"
                     /\ req'[w].resp = ErrorResponse(403, "FORBIDDEN")
                     /\ tables' = tables
               /\ (l.borrower_id = req[w].uid /\ l.status # "PENDING") =>
                     /\ req'[w].pc = "done"
                     /\ req'[w].resp = ErrorResponse(400, "VALIDATION_ERROR")
                     /\ tables' = tables]_vars

(***************************************************************************)
(* Identity resolution: an address invited again.                          *)
(***************************************************************************)
InvitationsFor(loan_id, email) ==
    {v \in invitations : v.loan_id = loan_id /\ v.invitee_email = email}

BatchPcs ==
    {"inv_lookup", "inv_put_real", "inv_upd_user", "inv_query", "inv_put_inv", "inv_get_part", "inv_put_part"}

\* Worker w is inside the invitation batch.
InBatch(w) == req[w].pc \in BatchPcs

\* The counts in what the batch returned, with or without the error field.
ReturnedCounts(resp) ==
    IF "data" \in DOMAIN JsonLoads(resp.body) THEN JsonLoads(resp.body).data ELSE JsonLoads(resp.body)

\* C20: the invitation batch returns only once its last invitee has been
\* processed, whatever failed on the way; no step of the batch removes an
\* Invitation or Participant row; and the invitations_created and
\* participants_created it counts and returns (with the error field when
\* a call failed) are the rows it wrote.
C20_BatchInviteesIndependent ==
    [][\A w \in Workers :
          InBatch(w) =>
            /\ req'[w].pc \notin BatchPcs => req[w].i = Len(req[w].lenders)
            /\ invitations \subseteq invitations'
            /\ \A p \in participants : \E q \in participants' : PartKey(q) = PartKey(p)
            /\ LET written == req[w].ic + Cardinality(invitations' \ invitations)
                   added == req[w].pcnt + Cardinality(participants' \ participants)
               IN /\ req'[w].pc \in BatchPcs =>
                        req'[w].ic = written /\ req'[w].pcnt >= added
                  /\ (req'[w].pc = "done" /\ req[w].kind = "invite") =>
                        /\ ReturnedCounts(req'[w].resp).invitations_created = written
                        /\ ReturnedCounts(req'[w].resp).participants_created >= added]_vars

\* C21: a createLoan request that has stored its loan row and then ends
\* with an error has returned a response that carries the loan id, and
\* the loan row is stored with status FAILED, whichever call failed.
C21_FailedLoanKeptAndMarked ==
    \A w \in Workers :
        (/\ req[w].pc = "done" /\ req[w].kind = "createLoan"
         /\ req[w].loan # 0 /\ ~ JsonLoads(req[w].resp.body).success) =>
            /\ "loan_id" \in DOMAIN JsonLoads(req[w].resp.body)
            /\ JsonLoads(req[w].resp.body).loan_id = req[w].loan
            /\ \E l \in LoanRow(loans, req[w].loan) : l.status = "FAILED"

(***************************************************************************)
(* The participant life cycle under concurrent requests.                   *)
(***************************************************************************)
\* C15: no step of any request takes a participant row whose status is
\* ACCEPTED to another status or removes it.
C15_AcceptedIsTerminal ==
    [][\A p \in participants :
          p.status = "ACCEPTED" =>
            \E q \in participants' :
                PartKey(q) = PartKey(p) /\ q.status = "ACCEPTED"]_vars

(***************************************************************************)
(* Payments, one request at a time.                                        *)
(***************************************************************************)
\* The caller is the loan's borrower, the (loan, lender) participant is
\* ACCEPTED and the amount is positive and within its remaining balance.
MaySubmit(uid, loan_id, lender_id, amount) ==
    /\ \E l \in LoanRow(loans, loan_id) : l.borrower_id = uid
    /\ \E p \in GetItem(participants, "loan_participants", <<loan_id, lender_id>>) :
          /\ p.status = "ACCEPTED"
          /\ 0 < amount
          /\ amount <= p.contribution_amount - TotalPaid(p)

Submitting(w) == req[w].kind = "submitPayment" /\ req[w].pc \in {"sp_get_part", "sp_put"}

\* C22: a submitPayment request that has succeeded has stored the PENDING
\* payment it returns, for a caller, participant and amount that satisfy
\* the three conditions; a request goes on to write only while they hold;
\* and every step that turns a request away returns an error and leaves
\* the payment table as it was.
C22_SubmitOnlyWithinBalance ==
    /\ [](\A w \in Workers :
            (req[w].pc = "done" /\ req[w].kind = "submitPayment" /\ JsonLoads(req[w].resp.body).success) =>
                LET x == JsonLoads(req[w].resp.body).data.payment
                IN /\ x \in payments /\ x.status = "PENDING" /\ x.borrower_id = req[w].uid
                   /\ MaySubmit(req[w].uid, x.loan_id, x.lender_id, x.amount))
    /\ [][\A w \in Workers :
            /\ (req'[w].kind = "submitPayment" /\ req'[w].pc = "sp_put" /\ req'[w] # req[w]) =>
                  MaySubmit(req'[w].uid, req'[w].loan, req'[w].lender, req'[w].amount)
            /\ (req'[w].kind = "submitPayment" /\ req'[w] # req[w] /\ req'[w].pc = "done" /\ req[w].pc # "sp_put") =>
                  /\ ~ JsonLoads(req'[w].resp.body).success
                  /\ payments' = payments
            /\ (Submitting(w) /\ req'[w].pc = "done" /\ ~ JsonLoads(req'[w].resp.body).success) =>
                  ~ MaySubmit(req[w].uid, req[w].loan, req[w].lender, req[w].amount)]_vars

\* A payment of the whole remaining balance of an ACCEPTED lender has been
\* submitted by the borrower.
C22_Witness ==
    \E w \in Workers :
        /\ req[w].pc = "done" /\ req[w].kind = "submitPayment"
        /\ JsonLoads(req[w].resp.body).success
        /\ LET x == JsonLoads(req[w].resp.body).data.payment
           IN \E p \in GetItem(participants, "loan_participants", <<x.loan_id, x.lender_id>>) :
                 p.status = "ACCEPTED" /\ x.amount = p.contribution_amount - TotalPaid(p)

\* The step changes, in the payment table, the row payment_id and nothing
\* but its status, updated_at and rejection_reason.
OnlyResolves(payment_id, status) ==
    /\ \A x \in payments : x.payment_id # payment_id => x \in payments'
    /\ \A x \in GetItem(payments, "payments", payment_id) :
          \E reason \in {"", "no receipt"}, at \in 0..MaxTime :
              payments' = PutItem(payments, "payments", [x EXCEPT !.status = status, !.rejection_reason = reason, !.updated_at = at])
    /\ \A y \in GetItem(payments', "payments", payment_id) : y.status = status

\* C23: approving a PENDING payment of amount a as its lender sets the
\* payment APPROVED (nothing else in the payment table changes), then adds
\* a to the participant's total_paid and stores remaining_balance =
\* contribution_amount - total_paid, a less than before; no other
\* participant row, no other field of the row and no loan row changes,
\* and the request ends with a success response.
C23_ApproveAddsAmountOnce ==
    [][\A w \in Workers :
          /\ req[w].pc = "ap_upd_pay" =>
                /\ OnlyResolves(req[w].pid, "APPROVED")
                /\ UNCHANGED <<users, loans, participants, invitations, idem, ach>>
          /\ req[w].pc = "ap_get_part" => req'[w].pc = "ap_upd_part"
          /\ req[w].pc = "ap_upd_part" =>
                /\ UNCHANGED <<users, loans, invitations, idem, ach, payments>>
                /\ \A x \in req[w].pay :
                      /\ \A p \in participants :
                            PartKey(p) # <<x.loan_id, x.lender_id>> => p \in participants'
                      /\ \E p \in GetItem(participants, "loan_participants", <<x.loan_id, x.lender_id>>) :
                            /\ participants' =
                                  PutItem(participants, "loan_participants",
                                          [p EXCEPT !.total_paid = p.total_paid + x.amount,
                                                    !.remaining_balance = p.contribution_amount - (p.total_paid + x.amount)])
                            /\ p.remaining_balance - x.amount = p.contribution_amount - (p.total_paid + x.amount)
                /\ req'[w].pc = "done"
                /\ JsonLoads(req'[w].resp.body).success]_vars

\* The lender has approved a payment of 300.00 against a contribution of
\* 500.00: 300.00 are paid and 200.00 remain.
C23_Witness ==
    \E w \in Workers :
        /\ req[w].pc = "done" /\ req[w].kind = "approvePayment"
        /\ JsonLoads(req[w].resp.body).success
        /\ \E x \in GetItem(payments, "payments", req[w].pid) :
              /\ x.status = "APPROVED" /\ x.amount = 30000 /\ x.lender_id = Registered(req[w].uid)
              /\ \E p \in GetItem(participants, "loan_participants", <<x.loan_id, x.lender_id>>) :
                    p.total_paid = 30000 /\ p.remaining_balance = 20000

\* C24: the write of a reject changes the payment row alone (status
\* REJECTED, rejection_reason, updated_at): every participant row, every
\* loan row and every other table is left as it was, and the request ends
\* with a success response.
C24_RejectIsAuditOnly ==
    [][\A w \in Workers :
          req[w].pc = "rj_upd" =>
             /\ OnlyResolves(req[w].pid, "REJECTED")
             /\ \A y \in GetItem(payments', "payments", req[w].pid) :
                   y.rejection_reason = req[w].email /\ y.updated_at = req[w].now
             /\ UNCHANGED <<users, loans, participants, invitations, idem, ach>>
             /\ req'[w].pc = "done"
             /\ JsonLoads(req'[w].resp.body).success]_vars

\* The lender has rejected a payment: it is REJECTED with the reason given,
\* and the lender's row still shows nothing paid.
C24_Witness ==
    \E w \in Workers :
        /\ req[w].pc = "done" /\ req[w].kind = "rejectPayment"
        /\ JsonLoads(req[w].resp.body).success
        /\ \E x \in GetItem(payments, "payments", req[w].pid) :
              /\ x.status = "REJECTED" /\ x.rejection_reason = "no receipt"
              /\ \E p \in GetItem(participants, "loan_participants", <<x.loan_id, x.lender_id>>) :
                    p.total_paid = 0 /\ p.remaining_balance = p.contribution_amount

(***************************************************************************)
(* Payments under concurrent approve and reject requests.                  *)
(***************************************************************************)
RECURSIVE SumAmounts(_)
SumAmounts(S) ==
    IF S = {} THEN 0
    ELSE LET x == CHOOSE y \in S : TRUE IN x.amount + SumAmounts(S \ {x})

ApprovedPayments(loan_id, lender_id) ==
    {x \in payments : x.loan_id = loan_id /\ x.lender_id = lender_id /\ x.status = "APPROVED"}

Resolving(w) == Busy(w) /\ req[w].kind \in {"approvePayment", "rejectPayment"}

\* C25: however approve and reject requests interleave, a payment that has
\* left PENDING keeps the status it was given (it is resolved once), and
\* once the requests have returned every participant's total_paid is the
\* sum of the amounts of its APPROVED payments (each amount counted once,
\* and only for payments that ended APPROVED).
C25_PaymentResolvedOnce ==
    /\ []((\A w \in Workers : ~ Resolving(w)) =>
            \A p \in participants :
                TotalPaid(p) = SumAmounts(ApprovedPayments(p.loan_id, p.lender_id)))
    /\ [][\A w \in Workers : \A x \in payments :
            (Resolving(w) /\ x.status # "PENDING") =>
                \A y \in GetItem(payments', "payments", x.payment_id) : y.status = x.status]_vars

(***************************************************************************)
(* payment_calculator.py: PaymentCalculator.  A date is a record           *)
(* [y, m, d]; datetime and dateutil arithmetic is written out.             *)
(***************************************************************************)
PAYMENT_FREQUENCIES(f) ==
    CASE f = "Weekly" -> 52
      [] f = "Bi-Weekly" -> 26
      [] f = "Monthly" -> 12
      [] f = "Quarterly" -> 4
      [] f = "Annually" -> 1

Frequencies == {"Weekly", "Bi-Weekly", "Monthly", "Quarterly", "Annually"}

\* As round, halves going up.
RoundHalfUp(num, den) ==
    IF 2 * (num % den) < den THEN num \div den ELSE num \div den + 1

\* Python's round(num / den) for num >= 0: the nearest integer, a half going
\* to the even neighbour.  The quotients rounded here are computed in binary
\* floating point; their error (relative 2^-53) is far from moving a value
\* across a half, and the halves that occur (multiples of 1/4 times an
\* integer) are exact in binary.
round(num, den) ==
    LET q == num \div den
        r == num % den
    IN IF 2 * r < den THEN q
       ELSE IF 2 * r > den THEN q + 1
       ELSE IF q % 2 = 0 THEN q ELSE q + 1

IsLeap(y) == (y % 4 = 0 /\ y % 100 # 0) \/ y % 400 = 0

DaysInMonth(y, m) ==
    IF m = 2 THEN (IF IsLeap(y) THEN 29 ELSE 28)
    ELSE IF m \in {4, 6, 9, 11} THEN 30 ELSE 31

DaysInYear(y) == IF IsLeap(y) THEN 366 ELSE 365

\* Day 1 of the calendar (date.toordinal counts from year 1).
Epoch == [y |-> 2023, m |-> 1, d |-> 1]

RECURSIVE DaysBeforeYear(_)
DaysBeforeYear(y) ==
    IF y <= Epoch.y THEN 0 ELSE DaysBeforeYear(y - 1) + DaysInYear(y - 1)

RECURSIVE DaysBeforeMonth(_, _)
DaysBeforeMonth(y, m) ==
    IF m <= 1 THEN 0 ELSE DaysBeforeMonth(y, m - 1) + DaysInMonth(y, m - 1)

toordinal(date) == DaysBeforeYear(date.y) + DaysBeforeMonth(date.y, date.m) + date.d

RECURSIVE MonthOfDay(_, _, _)
MonthOfDay(y, m, n) ==
    IF n <= DaysInMonth(y, m) THEN [y |-> y, m |-> m, d |-> n]
    ELSE MonthOfDay(y, m + 1, n - DaysInMonth(y, m))

RECURSIVE YearOfDay(_, _)
YearOfDay(y, n) ==
    IF n <= DaysInYear(y) THEN MonthOfDay(y, 1, n)
    ELSE YearOfDay(y + 1, n - DaysInYear(y))

fromordinal(n) == YearOfDay(Epoch.y, n)

\* date + timedelta(weeks = weeks)
timedelta(date, weeks) == fromordinal(toordinal(date) + 7 * weeks)

\* date + relativedelta(months = months): the month moves, the day is cut
\* down to the length of the month reached.
relativedelta(date, months) ==
    LET n == date.y * 12 + (date.m - 1) + months
        y == n \div 12
        m == (n % 12) + 1
    IN [y |-> y, m |-> m,
        d |-> IF date.d > DaysInMonth(y, m) THEN DaysInMonth(y, m) ELSE date.d]

PaymentDate(start, payment_frequency, payment_num) ==
    CASE payment_frequency = "Weekly" -> timedelta(start, payment_num)
      [] payment_frequency = "Bi-Weekly" -> timedelta(start, payment_num * 2)
      [] payment_frequency = "Monthly" -> relativedelta(start, payment_num)
      [] payment_frequency = "Quarterly" -> relativedelta(start, payment_num * 3)
      [] payment_frequency = "Annually" -> relativedelta(start, 12 * payment_num)

_generate_payment_schedule(start_date, payment_frequency, total_payments) ==
    [k \in 1..total_payments |-> PaymentDate(start_date, payment_frequency, k - 1)]

calculate_loan_terms(start_date, payment_frequency, term_length) ==
    LET payments_per_year == PAYMENT_FREQUENCIES(payment_frequency)
        total_payments == round(payments_per_year * term_length, 12)
    IN [maturity_date |-> relativedelta(start_date, term_length),
        total_payments |-> total_payments,
        payment_schedule |->
            _generate_payment_schedule(start_date, payment_frequency, total_payments)]

\* The arguments of a call that is about to be made.
LoanTermsCall(start_date, payment_frequency, term_length) ==
    [IdleReq EXCEPT !.kind = "loanTerms",
                    !.calc = [op |-> "calculate_loan_terms", start_date |-> start_date,
                              payment_frequency |-> payment_frequency,
                              term_length |-> term_length]]

\* The call returns; what was passed is kept beside the result.
ApplyLoanTerms(w) ==
    /\ req[w].pc = "idle"
    /\ req[w].kind = "loanTerms"
    /\ LET c == req[w].calc
       IN req' = [req EXCEPT ![w].pc = "done",
                             ![w].calc = [op |-> c.op, start_date |-> c.start_date,
                                          payment_frequency |-> c.payment_frequency,
                                          term_length |-> c.term_length,
                                          terms |-> calculate_loan_terms(
                                                        c.start_date, c.payment_frequency,
                                                        c.term_length)]]
    /\ UNCHANGED <<tables, clock>>

(***************************************************************************)
(* payment_calculator.py: the level payment and the amortization schedule. *)
(* The source computes in binary floating point.  Here an amount of money  *)
(* is an integer number of units of 1/10000 (MoneyUnit per cent), a rate   *)
(* is a fraction, and (1 + r)^n is enclosed between two fixed-point        *)
(* numbers of nine decimals; every value of the enclosure is a possible    *)
(* result, which covers the floating-point result (relative error 2^-53    *)
(* per operation).                                                         *)
(***************************************************************************)
\* <<quotient, remainder>> of a * b by c, for a, b >= 0 and 0 < c < 2^30,
\* without a number beyond the machine integer.
RECURSIVE MulDivQR(_, _, _)
MulDivQR(a, b, c) ==
    IF b = 0 THEN <<0, 0>>
    ELSE LET h == MulDivQR(a, b \div 2, c)
             q2 == 2 * h[1] + ((2 * h[2]) \div c)
             r2 == (2 * h[2]) % c
         IN IF b % 2 = 0 THEN <<q2, r2>>
            ELSE <<q2 + (a \div c) + ((r2 + (a % c)) \div c), (r2 + (a % c)) % c>>

\* floor(a * b / c)
MulDiv(a, b, c) == IF a = 0 \/ b = 0 \/ c = 0 THEN 0 ELSE MulDivQR(a, b, c)[1]

Scale == 10 ^ 9

RatioScale == 10 ^ 6

MoneyUnit == 10 ^ 2

\* A fixed-point number of twelve decimals is <<i, f1, f2, f3>>: the integer
\* part and three groups of four decimals.
Base == 10 ^ 4

\* The product cut to twelve decimals, plus `up` units of the last decimal.
FxMul(x, y, up) ==
    LET p0 == x[1] * y[1]
        p1 == x[1] * y[2] + x[2] * y[1]
        p2 == x[1] * y[3] + x[2] * y[2] + x[3] * y[1]
        p3 == x[1] * y[4] + x[2] * y[3] + x[3] * y[2] + x[4] * y[1]
        p4 == x[2] * y[4] + x[3] * y[3] + x[4] * y[2]
        p5 == x[3] * y[4] + x[4] * y[3]
        p6 == x[4] * y[4]
        t3 == p3 + ((p4 + ((p5 + (p6 \div Base)) \div Base)) \div Base) + up
        t2 == p2 + (t3 \div Base)
        t1 == p1 + (t2 \div Base)
        t0 == p0 + (t1 \div Base)
    IN <<t0, t1 % Base, t2 % Base, t3 % Base>>

\* x^n by repeated squaring: a lower bound of the power for up = 0 and x a
\* lower bound, an upper bound for up = 1 and x an upper bound.
RECURSIVE FxPow(_, _, _)
FxPow(x, n, up) ==
    IF n = 0 THEN <<1, 0, 0, 0>>
    ELSE LET h == FxPow(x, n \div 2, up)
             sq == FxMul(h, h, up)
         IN IF n % 2 = 0 THEN sq ELSE FxMul(sq, x, up)

\* The fraction num / den < 1 as a fixed-point number, cut.
FxFraction(num, den) ==
    LET f1 == (num * Base) \div den
        r1 == (num * Base) % den
        f2 == (r1 * Base) \div den
        r2 == (r1 * Base) % den
    IN <<0, f1, f2, (r2 * Base) \div den>>

\* (x - 1) * Scale, cut.
FxMinusOne(x) == (x[1] - 1) * Scale + x[2] * 100000 + x[3] * 10 + (x[4] \div 1000)

\* The amounts (in units) between which contribution * r(1+r)^n / ((1+r)^n - 1)
\* lies, r = rate_num / rate_den being the periodic rate; the quotient
\* (1+r)^n / ((1+r)^n - 1) is taken to six decimals.
LevelPaymentBounds(contribution, rate_num, rate_den, n) ==
    LET r == FxFraction(rate_num, rate_den)
        den_lo == FxMinusOne(FxPow(<<1, r[2], r[3], r[4]>>, n, 0))
        den_hi == FxMinusOne(FxPow(<<1, r[2], r[3], r[4] + 1>>, n, 1)) + 1
        ratio_lo == RatioScale + MulDiv(Scale, RatioScale, den_hi)
        ratio_hi == RatioScale + MulDiv(Scale, RatioScale, den_lo) + 1
        x == (contribution \div MoneyUnit) * rate_num
        d == rate_den * (RatioScale \div MoneyUnit)
    IN [lo |-> MulDiv(x, ratio_lo, d), hi |-> MulDiv(x, ratio_hi, d) + 1]

\* As calculate_lender_payments, with simple interest spread evenly.
LenderPaymentsSimpleInterest(contribution_amount, rate_num, rate_den, total_payments, payment_frequency) ==
    IF contribution_amount <= 0 \/ rate_num <= 0 \/ total_payments <= 0 THEN {}
    ELSE LET per_year == PAYMENT_FREQUENCIES(payment_frequency)
             interest == MulDiv(contribution_amount, rate_num * total_payments,
                                rate_den * per_year)
         IN {round((contribution_amount + interest) \div total_payments, MoneyUnit)}

\* The payment_amount values (in cents) calculate_lender_payments may return
\* for an annual rate of rate_num / rate_den; none when it raises ValueError.
calculate_lender_payments(contribution_amount, rate_num, rate_den, total_payments, payment_frequency) ==
    IF contribution_amount <= 0 \/ rate_num <= 0 \/ total_payments <= 0 THEN {}
    ELSE LET payments_per_year == PAYMENT_FREQUENCIES(payment_frequency)
             b == LevelPaymentBounds(contribution_amount, rate_num,
                                     rate_den * payments_per_year, total_payments)
         IN {round(x, MoneyUnit) : x \in b.lo..b.hi}

\* The totals beside a payment_amount (cents).
LenderPayments(contribution_amount, payment_amount, total_payments) ==
    [payment_amount |-> payment_amount,
     total_repayment |-> payment_amount * total_payments,
     total_interest |-> payment_amount * total_payments
                        - (contribution_amount \div MoneyUnit)]

\* The arguments of a call that is about to be made: the contribution in
\* units, the annual rate as a fraction.
LenderPaymentsCall(contribution_amount, rate_num, rate_den, total_payments, payment_frequency) ==
    [IdleReq EXCEPT !.kind = "lenderPayments",
                    !.calc = [op |-> "calculate_lender_payments",
                              contribution_amount |-> contribution_amount,
                              rate_num |-> rate_num, rate_den |-> rate_den,
                              total_payments |-> total_payments,
                              payment_frequency |-> payment_frequency]]

ApplyLenderPayments(w) ==
    /\ req[w].pc = "idle"
    /\ req[w].kind = "lenderPayments"
    /\ LET c == req[w].calc
           amounts == calculate_lender_payments(c.contribution_amount, c.rate_num,
                                                c.rate_den, c.total_payments,
                                                c.payment_frequency)
           returned(result) ==
               [req EXCEPT ![w].pc = "done",
                           ![w].calc = [op |-> c.op,
                                        contribution_amount |-> c.contribution_amount,
                                        rate_num |-> c.rate_num, rate_den |-> c.rate_den,
                                        total_payments |-> c.total_payments,
                                        payment_frequency |-> c.payment_frequency,
                                        payments |-> result]]
       IN IF amounts = {} THEN req' = returned([error |-> "ValueError"])
          ELSE \E payment_amount \in amounts :
                   req' = returned(LenderPayments(c.contribution_amount, payment_amount,
                                                  c.total_payments))
    /\ UNCHANGED <<tables, clock>>

\* One line of the schedule: the amounts rounded to cents.
ScheduleRow(c) ==
    [payment_number |-> c.payment_num,
     payment_amount |-> round(c.actual_payment, MoneyUnit),
     interest |-> round(c.interest, MoneyUnit),
     principal |-> round(c.principal, MoneyUnit),
     balance |-> round(c.balance, MoneyUnit),
     cumulative_interest |-> round(c.cumulative_interest, MoneyUnit),
     cumulative_principal |-> round(c.cumulative_principal, MoneyUnit)]

\* generate_lender_amortization_schedule is called with a payment_amount
\* (units); `level` tells that it is the one calculate_lender_payments gave.
StartAmortization(w, payment_amount, level) ==
    /\ req[w].pc = "done"
    /\ req[w].kind = "lenderPayments"
    /\ "payment_amount" \in DOMAIN req[w].calc.payments
    /\ LET c == req[w].calc
       IN req' = [req EXCEPT ![w].pc = "am_loop", ![w].kind = "amortization",
                       ![w].calc =
                           [op |-> "generate_lender_amortization_schedule",
                            contribution_amount |-> c.contribution_amount,
                            payment_amount |-> payment_amount, level |-> level,
                            rate_num |-> c.rate_num,
                            rate_den |-> c.rate_den
                                         * PAYMENT_FREQUENCIES(c.payment_frequency),
                            total_payments |-> c.total_payments,
                            payment_num |-> 0, balance_before |-> c.contribution_amount,
                            interest |-> 0, principal |-> 0, actual_payment |-> 0,
                            balance |-> c.contribution_amount,
                            cumulative_interest |-> 0, cumulative_principal |-> 0,
                            schedule |-> <<>>]]
    /\ UNCHANGED <<tables, clock>>

\* One pass of the loop, where `final` tells whether the installment is
\* adjusted to pay the balance off; the call returns after the last pass.
AmortizationPass(w, final) ==
    /\ req[w].pc = "am_loop"
    /\ LET c == req[w].calc
           payment_num == c.payment_num + 1
           interest == MulDiv(c.balance, c.rate_num, c.rate_den)
           principal == IF final THEN c.balance ELSE c.payment_amount - interest
           actual_payment == IF final THEN c.balance + interest ELSE c.payment_amount
           balance == IF c.balance - principal > 0 THEN c.balance - principal ELSE 0
           d == [c EXCEPT !.payment_num = payment_num, !.balance_before = c.balance,
                          !.interest = interest, !.principal = principal,
                          !.actual_payment = actual_payment, !.balance = balance,
                          !.cumulative_interest = @ + interest,
                          !.cumulative_principal = @ + principal]
       IN /\ payment_num <= c.total_payments
          /\ req' = [req EXCEPT
                        ![w].pc = IF payment_num = c.total_payments
                                  THEN "done" ELSE "am_loop",
                        ![w].calc = [d EXCEPT !.schedule = Append(@, ScheduleRow(d))]]
    /\ UNCHANGED <<tables, clock>>

\* As AmortizationStep, the last installment like the others.
AmortizationStepUnadjusted(w) == AmortizationPass(w, FALSE)

AmortizationStep(w) ==
    AmortizationPass(w, req[w].calc.payment_num + 1 = req[w].calc.total_payments)

(***************************************************************************)
(* The borrower's participant list: batched against row by row.            *)
(***************************************************************************)
\* C26: on every content of the participant, user and ACH tables the list
\* the batched paths return (_enrich_participant_data for one loan,
\* batch_enrich_loans_with_participants for a list of loans) equals, entry
\* by entry and field by field, the list get_loan_participants builds with
\* one read per row; and the other way round.
C26_BatchedEqualsPerRow ==
    \A w \in Workers :
        req[w].pc = "done" =>
            LET data == JsonLoads(req[w].resp.body).data
            IN /\ req[w].kind = "enrichParticipantData" =>
                      data.participants =
                          get_loan_participants(participants, req[w].loan, users, ach)
               /\ req[w].kind = "batchEnrichLoans" =>
                      \A i \in 1..Len(data.loans) :
                          data.loans[i].participants =
                              get_loan_participants(participants, data.loans[i].loan_id,
                                                    users, ach)
               /\ req[w].kind = "getLoanParticipants" =>
                      data.participants =
                          _enrich_participant_data(
                              QueryParticipants({p \in participants :
                                                    p.loan_id = req[w].loan}),
                              req[w].loan, 0, "", TRUE, users, ach).participants

\* A batched list over two loans with an entry that carries ACH details, an
\* entry whose user row is missing, and an ACH record of the same lender
\* for the other loan.
C26_Witness ==
    \E w \in Workers :
        /\ req[w].pc = "done"
        /\ req[w].kind = "batchEnrichLoans"
        /\ LET found == JsonLoads(req[w].resp.body).data.loans
           IN /\ Len(found) = 2
              /\ \E i \in 1..Len(found) :
                    LET plist == found[i].participants
                    IN /\ \E k \in 1..Len(plist) :
                             /\ plist[k].ach_details # {}
                             /\ \E a \in ach : /\ a.user_id = plist[k].lender_id.uid
                                               /\ a.loan_id # found[i].loan_id
                       /\ \E k \in 1..Len(plist) : plist[k].lender_email = "Unknown"
                       /\ \E k \in 1..Len(plist) : IsPending(plist[k].lender_id)

(***************************************************************************)
(* Overlapping accepts.                                                    *)
(***************************************************************************)
AcceptWriting(w) == req[w].pc \in {"ac_upd_part", "ac_upd_loan", "ac_put_ach"}

\* C30: the accept path checks first and writes afterwards without
\* conditions: a request that has read a PENDING participant and a PENDING
\* loan applies its three writes and returns success whatever the tables
\* hold by then, so two requests that read the same PENDING state both do.
C30_AcceptWritesUnconditionally ==
    [][\A w \in Workers :
          (AcceptWriting(w) /\ req'[w] # req[w]) =>
              LET r == req[w]
                  key == <<r.loan, Registered(r.uid)>>
              IN /\ r.pc = "ac_upd_part" =>
                      /\ req'[w].pc = "ac_upd_loan"
                      /\ \A p \in GetItem(participants', "loan_participants", key) :
                             p.status = "ACCEPTED" /\ p.responded_at = r.now
                 /\ r.pc = "ac_upd_loan" =>
                      /\ req'[w].pc = "ac_put_ach"
                      /\ \A l \in GetItem(loans', "loans", r.loan) :
                             /\ l.total_funded = NewTotalFunded(r)
                             /\ l.status = NewLoanStatus(r)
                 /\ r.pc = "ac_put_ach" =>
                      /\ req'[w].pc = "done"
                      /\ req'[w].resp.code = 200
                      /\ GetItem(ach', "ach_details", <<r.uid, r.loan>>) # {}]_vars

\* One accept has returned success; a second one for the same participant,
\* which read the same PENDING rows, has applied its writes to the
\* participant and the loan and is about to store the ACH record and return.
C30_Witness ==
    \E v, w \in Workers :
        /\ v # w
        /\ req[v].pc = "done" /\ req[v].kind = "accept" /\ req[v].resp.code = 200
        /\ req[w].pc = "ac_put_ach"
        /\ req[w].uid = req[v].uid /\ req[w].loan = req[v].loan
        /\ \A p \in req[w].prow : p.status = "PENDING"
        /\ \A l \in req[w].lrow : l.status = "PENDING" /\ l.total_funded = 0
        /\ \A l \in GetItem(loans, "loans", req[w].loan) :
               l.total_funded = NewTotalFunded(req[w])

C32_ActiveIffFunded ==
    (\A w \in Workers : ~ AcceptWriting(w)) =>
        \A l \in loans :
            l.status # "FAILED" => (l.status = "ACTIVE" <=> l.total_funded >= l.amount)

\* Two accepts for the loan overlapped; both have returned, the loan is
\* ACTIVE and stores its whole amount.
C32_Witness ==
    /\ \A w \in Workers : ~ Busy(w)
    /\ \E l \in loans :
          /\ l.status = "ACTIVE" /\ l.total_funded >= l.amount
          /\ Cardinality({p \in participants :
                             p.loan_id = l.loan_id /\ p.status = "ACCEPTED"}) >= 2

(***************************************************************************)
(* Funding completes.                                                      *)
(***************************************************************************)
\* The contributions of the loan's participants sum to its amount and every
\* participant's accept has written the participant row.
EveryoneAccepted(l) ==
    /\ SumSet(ParticipantsOf(l.loan_id)) = l.amount
    /\ \A p \in ParticipantsOf(l.loan_id) : p.status = "ACCEPTED"

\* C33: when the contributions of a loan's participants sum to its amount
\* and every participant has accepted, the accept requests running to their
\* end, the loan eventually is ACTIVE with total_funded equal to its amount,
\* however the requests interleave.
C33_FullyAcceptedLoanActivates ==
    (\E l \in loans : EveryoneAccepted(l))
        ~> (\E l \in loans : /\ EveryoneAccepted(l)
                             /\ l.status = "ACTIVE"
                             /\ l.total_funded = l.amount)

(***************************************************************************)
(* A loan marked FAILED while a lender accepts.                            *)
(***************************************************************************)
\* C34: FAILED is terminal: no step of any request changes the status or
\* the total_funded of a loan whose stored status is FAILED, and no
\* participant of such a loan becomes ACCEPTED.
C34_FailedIsTerminal ==
    [][\A l \in loans :
          l.status = "FAILED" =>
            /\ \E m \in loans' : /\ m.loan_id = l.loan_id
                                 /\ m.status = "FAILED"
                                 /\ m.total_funded = l.total_funded
            /\ \A p \in ParticipantsOf(l.loan_id)' :
                   p.status = "ACCEPTED" =>
                       \E q \in participants :
                           PartKey(q) = PartKey(p) /\ q.status = "ACCEPTED"]_vars

(***************************************************************************)
(* The participant's ledger over several payments.                         *)
(***************************************************************************)
\* C36: every ACCEPTED participant has total_paid <= contribution_amount,
\* remaining_balance >= 0 and total_paid + remaining_balance =
\* contribution_amount, after any sequence of submit, approve and reject
\* requests, several payments submitted before any is approved included.
C36_LedgerWithinContribution ==
    \A p \in participants :
        p.status = "ACCEPTED" =>
            /\ p.total_paid <= p.contribution_amount
            /\ p.remaining_balance >= 0
            /\ p.total_paid + p.remaining_balance = p.contribution_amount

(***************************************************************************)
(* A resolved payment and later requests.                                  *)
(***************************************************************************)
\* C37: a payment's resolution is terminal: no step of any request changes
\* the status or the amount of a payment whose stored status is APPROVED or
\* REJECTED (a submitPayment whose receipt_key carries the same payment id
\* included), so no payment is approved a second time.
C37_ResolvedPaymentIsTerminal ==
    [][\A x \in payments :
          x.status \in {"APPROVED", "REJECTED"} =>
              \E y \in payments' : /\ y.payment_id = x.payment_id
                                   /\ y.status = x.status
                                   /\ y.amount = x.amount]_vars

(***************************************************************************)
(* What a successful addLenders has stored.                                *)
(***************************************************************************)
\* The participant row p belongs to the invited address.
RowOfInvitee(p, email) ==
    \/ p.lender_id = PendingId(email)
    \/ \E u \in users : u.email = email /\ p.lender_id = Registered(u.user_id)

\* C39: an addLenders request that returns success has created exactly one
\* new participant row per invitee of the request, with that invitee's
\* contribution: participants_created = lenders_added, the loan has one
\* row more per invitee than the request read, and total_invited is the sum
\* of the contributions of the loan's rows.
C39_AddLendersOneRowPerInvitee ==
    [][\A w \in Workers :
          (/\ req[w].kind = "addLenders" /\ Busy(w)
           /\ req'[w].pc = "done" /\ ~ req'[w].hit
           /\ JsonLoads(req'[w].resp.body).success) =>
              LET r == req[w]
                  data == JsonLoads(req'[w].resp.body).data
                  after == {p \in participants' : p.loan_id = r.loan}
                  new == {p \in after : \A q \in r.existing : PartKey(q) # PartKey(p)}
              IN /\ data.participants_created = data.lenders_added
                 /\ data.lenders_added = Len(r.lenders)
                 /\ Cardinality(new) = Len(r.lenders)
                 /\ \A k \in 1..Len(r.lenders) :
                        \E p \in new :
                            /\ RowOfInvitee(p, r.lenders[k].email)
                            /\ p.contribution_amount = r.lenders[k].contribution_amount
                 /\ data.total_invited = SumSet(after)]_vars

(***************************************************************************)
(* The payment calculator.                                                 *)
(***************************************************************************)
MonthIndex(date) == date.y * 12 + (date.m - 1)

\* `date` is `start` moved by that many months, the day cut to the month's length.
MonthsLater(start, date, months) ==
    /\ MonthIndex(date) = MonthIndex(start) + months
    /\ date.d = IF start.d > DaysInMonth(date.y, date.m)
                THEN DaysInMonth(date.y, date.m) ELSE start.d

\* C27: for each of the five frequencies and each term of 1..60 months
\* calculate_loan_terms returns as total_payments the integer nearest to
\* payments_per_year * term_months / 12 (table 52/26/12/4/1; Python's
\* round: an exact half goes to the even neighbour) and a schedule of exactly
\* that many dates, the k-th (k from 0) being the start date plus k periods:
\* 7k or 14k days, or k, 3k or 12k calendar months.
C27_LoanTermsCountAndSchedule ==
    \A w \in Workers :
        (req[w].pc = "done" /\ req[w].kind = "loanTerms") =>
            LET c == req[w].calc
                f == c.payment_frequency
                per_year == CASE f = "Weekly" -> 52 [] f = "Bi-Weekly" -> 26
                              [] f = "Monthly" -> 12 [] f = "Quarterly" -> 4
                              [] f = "Annually" -> 1
                n == c.terms.total_payments
                twelfths == per_year * c.term_length - 12 * n
                dates == c.terms.payment_schedule
            IN /\ twelfths \in -6..6
               /\ twelfths \in {-6, 6} => n % 2 = 0
               /\ Len(dates) = n
               /\ \A k \in 0..(n - 1) :
                     CASE f = "Weekly" ->
                              toordinal(dates[k + 1]) = toordinal(c.start_date) + 7 * k
                       [] f = "Bi-Weekly" ->
                              toordinal(dates[k + 1]) = toordinal(c.start_date) + 14 * k
                       [] f = "Monthly" -> MonthsLater(c.start_date, dates[k + 1], k)
                       [] f = "Quarterly" -> MonthsLater(c.start_date, dates[k + 1], 3 * k)
                       [] f = "Annually" -> MonthsLater(c.start_date, dates[k + 1], 12 * k)

\* C40: for every frequency createLoan accepts and every term of 1..60
\* months the terms createLoan computes and stores have total_payments >= 1
\* and a payment schedule that is not empty (calculate_lender_payments
\* raises for total_payments <= 0).
C40_StoredTermsHaveAPayment ==
    \A w \in Workers :
        (req[w].pc = "done" /\ req[w].kind = "loanTerms") =>
            /\ req[w].calc.terms.total_payments >= 1
            /\ req[w].calc.terms.payment_schedule # <<>>

\* Bi-weekly payments over a term that gives a count ending in one half
\* (15 months: 32.5), scheduled into a later year.
C27_Witness ==
    \E w \in Workers :
        /\ req[w].pc = "done"
        /\ req[w].kind = "loanTerms"
        /\ req[w].calc.payment_frequency = "Bi-Weekly"
        /\ (26 * req[w].calc.term_length) % 12 = 6
        /\ req[w].calc.terms.total_payments > 26
        /\ Len(req[w].calc.terms.payment_schedule) = req[w].calc.terms.total_payments
        /\ req[w].calc.terms.payment_schedule[27].y > req[w].calc.start_date.y

ExampleLenderPayments(w) ==
    /\ req[w].pc = "done"
    /\ req[w].kind = "lenderPayments"
    /\ req[w].calc.contribution_amount = 200000000
    /\ req[w].calc.rate_num = 85
    /\ req[w].calc.rate_den = 1000
    /\ req[w].calc.total_payments = 24
    /\ req[w].calc.payment_frequency = "Monthly"

\* C29 as stated: calculate_lender_payments(20000, 0.085, 24, Monthly)
\* returns a payment within one cent of 910.70.
C29_ExamplePaymentAsStated ==
    \A w \in Workers :
        ExampleLenderPayments(w) =>
            /\ "payment_amount" \in DOMAIN req[w].calc.payments
            /\ req[w].calc.payments.payment_amount \in 91069..91071

\* C29, amended: calculate_lender_payments(20000, 0.085, 24, Monthly)
\* returns contribution * r(1+r)^n / ((1+r)^n - 1) for r = 0.085/12 and
\* n = 24 rounded to 2 decimals, which is within one cent of 909.11.
C29_ExamplePayment ==
    \A w \in Workers :
        ExampleLenderPayments(w) =>
            /\ "payment_amount" \in DOMAIN req[w].calc.payments
            /\ req[w].calc.payments.payment_amount \in 90910..90912
            /\ req[w].calc.payments.total_repayment
                   = 24 * req[w].calc.payments.payment_amount

C29_Witness ==
    \E w \in Workers :
        /\ ExampleLenderPayments(w)
        /\ req[w].calc.payments.payment_amount = 90911
        /\ req[w].calc.payments.total_interest = 181864

(***************************************************************************)
(* The steps of each kind of request.                                      *)
(***************************************************************************)
StartRegistration(w, emails) == \E e \in emails : StartRegister(w, e)

StartSession(w) ==
    \E e \in RegisterEmails, ok \in BOOLEAN : StartLogin(w, e, ok)

ActivationSteps(w) ==
    \/ ActivateNextInvitation(w)
    \/ ScanParticipants(w)
    \/ DeletePendingParticipant(w)
    \/ PutMigratedParticipant(w)

RegisterSteps(w) ==
    \/ RegisterCheckInvitations(w)
    \/ RegisterPutUser(w)
    \/ ActivationSteps(w)

InviteSteps(w) ==
    \/ batch_lookup_lender_emails(w)
    \/ PutRealParticipant(w)
    \/ ActivateLenderRole(w)
    \/ QueryLoanInvitations(w)
    \/ PutInvitation(w)
    \/ GetPendingParticipant(w)
    \/ PutPendingParticipant(w)

\* createLoan with an Idempotency-Key header out of `keys` (0: no header);
\* no more than `limit` requests get as far as storing a loan.
StartLoan(w, keys, limit) ==
    \E u \in users, key \in keys, amount \in LoanAmounts, lenders \in LenderLists :
        /\ u.email \in BorrowerEmails
        /\ StartCreateLoan(w, u, key, amount, lenders)
        /\ req'[w].pc = "cl_put" => LoansRequested < limit

\* The loans of the accept scenarios: 10000.00 from two lenders of 5000.00,
\* and 1000.00 with a first lender who funds it alone.
AcceptLoanAmounts == LoanAmounts \cup {1000000}

AcceptLenderLists ==
    LenderLists \cup {<<Invite("b", 500000), Invite("c", 500000)>>,
                      <<Invite("b", 100000), Invite("c", 1)>>}

\* createLoan without an Idempotency-Key header, one loan.
StartLoanOf(w, amounts, lists) ==
    \E u \in users, amount \in amounts, lenders \in lists :
        /\ u.email \in BorrowerEmails
        /\ StartCreateLoan(w, u, 0, amount, lenders)
        /\ req'[w].pc = "cl_put" => LoansRequested < OneLoan

StartInvite(w, keys) ==
    \E u \in users, key \in keys, loan_id \in LoanIds, lenders \in LenderLists :
        StartAddLenders(w, u, key, loan_id, lenders)

\* The lists of the duplicate scenarios: a one-cent top-up that names an
\* address already invited, as stored and in capitals.
DuplicateLenderLists == LenderLists \cup {<<Invite("b", 1)>>, <<Invite("B", 1)>>}

StartInviteOf(w, keys, lists) ==
    \E u \in users, key \in keys, loan_id \in LoanIds, lenders \in lists :
        StartAddLenders(w, u, key, loan_id, lenders)

\* The invitees of the direct calls: an address twice in one call with two
\* contributions, in capitals the second time, and once per call.
BatchLenderLists ==
    {<<Invite("d", 1), Invite("d", 2)>>, <<Invite("b", 1), Invite("B", 2)>>,
     <<Invite("d", 1)>>, <<Invite("d", 2)>>, <<Invite("c", 1), Invite("d", 2)>>}

StartBatch(w) ==
    \E loan \in loans, lenders \in BatchLenderLists :
        create_lender_invitations_batch(w, loan, lenders)

AddLendersSteps(w) ==
    \/ AddLendersGetLoan(w)
    \/ AddLendersQueryParticipants(w)
    \/ AddLendersBatchGetUsers(w)

StartLender(w) == \E u \in users, loan_id \in LoanIds : StartAccept(w, u, loan_id)

AcceptSteps(w) ==
    \/ AcceptGetLoan(w)
    \/ AcceptUpdateParticipant(w)
    \/ AcceptUpdateLoan(w)
    \/ AcceptPutAch(w)

StartView(w) ==
    \E u \in users, loan_id \in LoanIds : StartGetLoanDetails(w, u, loan_id)

\* What borrowers pay (cents) against contributions of 500.00: nothing,
\* a part, the whole, and a cent too much.
PaymentAmounts == {0, 30000, 50000, 50001}

PaymentIds == {x.payment_id : x \in payments} \cup {0}

\* No more than MaxPayments payment ids are generated.
StartPayment(w) ==
    \E u \in users, loan_id \in LoanIds, p \in participants, amount \in PaymentAmounts, receipt_id \in PaymentIds :
        /\ receipt_id = 0 => Cardinality(payments) < MaxPayments
        /\ StartSubmitPayment(w, u, loan_id, p.lender_id, amount, receipt_id)

SubmitSteps(w) == SubmitGetParticipant(w) \/ SubmitPutPayment(w)

StartApproval(w) ==
    \E u \in users, payment_id \in PaymentIds : StartApprovePayment(w, u, payment_id)

ApproveSteps(w) ==
    \/ ApproveUpdatePayment(w)
    \/ ApproveGetParticipant(w)
    \/ ApproveUpdateParticipant(w)

StartRejection(w) ==
    \E u \in users, payment_id \in PaymentIds, reason \in {"", "no receipt"} :
        StartRejectPayment(w, u, payment_id, reason)

\* No other worker is inside a request.
Quiet(w) == \A v \in Workers \ {w} : ~ Busy(v)

\* The other workers are idle or inside a request of one of `kinds`.
Among(w, kinds) == \A v \in Workers \ {w} : Busy(v) => req[v].kind \in kinds

(***************************************************************************)
(* Specifications.  Next lets every request interleave with every other    *)
(* at each storage call.                                                   *)
(***************************************************************************)
Next ==
    \/ \E w \in Workers :
          \/ StartRegistration(w, RegisterEmails) \/ RegisterSteps(w)
          \/ StartSession(w) \/ LoginCheckInvitations(w) \/ LoginUpdateUser(w)
          \/ StartLoan(w, Keys \cup {0}, MaxLoans) \/ PutLoan(w) \/ InviteSteps(w)
          \/ StartInvite(w, Keys \cup {0}) \/ AddLendersSteps(w)
          \/ PutIdempotencyRecord(w)
          \/ StartLender(w) \/ AcceptSteps(w)
          \/ StartView(w)
    \/ Tick

Spec == Init /\ [][Next]_vars

\* One request at a time, each run to completion, no Idempotency-Key header.
NextSeq ==
    \/ StartRegistration("w1", RegisterEmails) \/ RegisterSteps("w1")
    \/ StartSession("w1") \/ LoginCheckInvitations("w1")
    \/ StartLoan("w1", {0}, OneLoan) \/ PutLoan("w1") \/ InviteSteps("w1")
    \/ StartInvite("w1", {0}) \/ AddLendersSteps("w1")
    \/ StartLender("w1") \/ AcceptSteps("w1")
    \/ StartView("w1")

SpecSeq == Init /\ [][NextSeq]_vars

\* Invitations and registrations, one request at a time, as time passes.
NextActivate ==
    \/ StartRegistration("w1", RegisterEmails) \/ RegisterSteps("w1")
    \/ StartLoan("w1", {0}, MaxLoans) \/ PutLoan("w1") \/ InviteSteps("w1")
    \/ Tick

SpecActivate == Init /\ [][NextActivate]_vars

\* One request at a time; createLoan and addLenders carry an Idempotency-Key
\* header or none.
NextIdem ==
    \/ StartRegistration("w1", BorrowerEmails \cup {"b"}) \/ RegisterSteps("w1")
    \/ StartLoan("w1", Keys \cup {0}, MaxLoans) \/ PutLoan("w1") \/ InviteSteps("w1")
    \/ StartInvite("w1", Keys \cup {0}) \/ AddLendersSteps("w1")
    \/ PutIdempotencyRecord("w1")

SpecIdem == Init /\ [][NextIdem]_vars

\* Accounts and a loan are set up one request at a time; accept requests of
\* concurrent workers interleave at every storage call.
NextFund ==
    \/ /\ Quiet("w1")
       /\ StartRegistration("w1", RegisterEmails) \/ StartLoan("w1", {0}, OneLoan)
    \/ RegisterSteps("w1") \/ PutLoan("w1") \/ InviteSteps("w1")
    \/ \E w \in Workers :
          \/ Among(w, {"accept"}) /\ StartLender(w)
          \/ AcceptSteps(w)

SpecFund == Init /\ [][NextFund]_vars

\* As SpecFund; a request that has begun an accept takes its next step.
SpecFundFair == SpecFund /\ \A w \in Workers : WF_vars(AcceptSteps(w))

\* Accounts are set up one request at a time; the createLoan and addLenders
\* requests of concurrent workers interleave at every storage call.
NextInvite ==
    \/ /\ Quiet("w1")
       /\ StartRegistration("w1", BorrowerEmails \cup {"c"}) \/ StartLoan("w1", {0}, OneLoan)
    \/ RegisterSteps("w1") \/ PutLoan("w1")
    \/ \E w \in Workers :
          \/ Among(w, {"addLenders"}) /\ StartInvite(w, {0})
          \/ InviteSteps(w) \/ AddLendersSteps(w)

SpecInvite == Init /\ [][NextInvite]_vars

\* As SpecInvite, for createLoan requests that carry an Idempotency-Key.
NextRetry ==
    \/ Quiet("w1") /\ StartRegistration("w1", RegisterEmails)
    \/ RegisterSteps("w1")
    \/ \E w \in Workers :
          \/ Among(w, {"createLoan"}) /\ StartLoan(w, Keys, MaxLoans)
          \/ PutLoan(w) \/ InviteSteps(w) \/ PutIdempotencyRecord(w)

SpecRetry == Init /\ [][NextRetry]_vars

\* The borrower registers and asks for a loan on one worker while invitees
\* register and log in on the other.
NextJoin ==
    \/ Quiet("w1") /\ StartRegistration("w1", BorrowerEmails)
    \/ StartLoan("w1", {0}, OneLoan) \/ PutLoan("w1") \/ InviteSteps("w1")
    \/ StartRegistration("w2", {"b", "c"}) \/ StartSession("w2")
    \/ LoginCheckInvitations("w2") \/ LoginUpdateUser("w2")
    \/ \E w \in Workers : RegisterSteps(w)

SpecJoin == Init /\ [][NextJoin]_vars

\* One request at a time; any storage call of the activation may fail.
NextFault ==
    \/ StartRegistration("w1", RegisterEmails) \/ RegisterSteps("w1")
    \/ StartSession("w1") \/ LoginCheckInvitations("w1") \/ LoginUpdateUser("w1")
    \/ StartLoan("w1", {0}, OneLoan) \/ PutLoan("w1") \/ InviteSteps("w1")
    \/ ActivationFailures("w1")

SpecFault == Init /\ [][NextFault]_vars

\* Accounts, one loan and accept requests, one request at a time.
NextAccept ==
    \/ StartRegistration("w1", RegisterEmails) \/ RegisterSteps("w1")
    \/ StartLoanOf("w1", AcceptLoanAmounts, AcceptLenderLists)
    \/ PutLoan("w1") \/ InviteSteps("w1")
    \/ StartLender("w1") \/ AcceptSteps("w1")

SpecAccept == Init /\ [][NextAccept]_vars

\* As SpecAccept for the loans of SpecFund; any write of an accept may fail.
NextAcceptFault ==
    \/ StartRegistration("w1", RegisterEmails) \/ RegisterSteps("w1")
    \/ StartLoan("w1", {0}, OneLoan) \/ PutLoan("w1") \/ InviteSteps("w1")
    \/ StartLender("w1") \/ AcceptSteps("w1")
    \/ AcceptLoanAtomicFails("w1")

SpecAcceptFault == Init /\ [][NextAcceptFault]_vars

\* As SpecInvite, with the accept requests of the invited accounts.
NextTerminal ==
    \/ /\ Quiet("w1")
       /\ StartRegistration("w1", BorrowerEmails \cup {"c"}) \/ StartLoan("w1", {0}, OneLoan)
    \/ RegisterSteps("w1") \/ PutLoan("w1")
    \/ \E w \in Workers :
          \/ Among(w, {"addLenders", "accept"}) /\ (StartInvite(w, {0}) \/ StartLender(w))
          \/ InviteSteps(w) \/ AddLendersSteps(w) \/ AcceptSteps(w)

SpecTerminal == Init /\ [][NextTerminal]_vars

\* One request at a time, no Idempotency-Key header: accounts, one loan,
\* accepts, and addLenders requests that name invited addresses again.
NextAdd ==
    \/ StartRegistration("w1", RegisterEmails) \/ RegisterSteps("w1")
    \/ StartLoan("w1", {0}, OneLoan) \/ PutLoan("w1") \/ InviteSteps("w1")
    \/ StartInviteOf("w1", {0}, DuplicateLenderLists) \/ AddLendersSteps("w1")
    \/ StartLender("w1") \/ AcceptSteps("w1")

SpecAdd == Init /\ [][NextAdd]_vars

\* One call at a time: accounts, one loan, and the invitation batch called
\* on its own for that loan.
NextBatch ==
    \/ StartRegistration("w1", RegisterEmails) \/ RegisterSteps("w1")
    \/ StartLoan("w1", {0}, OneLoan) \/ PutLoan("w1") \/ InviteSteps("w1")
    \/ StartBatch("w1")

SpecBatch == Init /\ [][NextBatch]_vars

\* As SpecBatch, with storage calls of the invitation loop, and of the
\* marking of the loan that follows, that fail.
NextBatchFault ==
    \/ NextBatch
    \/ InvitationBatchFails("w1") \/ MarkLoanFailed("w1")
    \/ MarkLoanFailedFails("w1") \/ MarkLoanFailedBestEffort("w1")

SpecBatchFault == Init /\ [][NextBatchFault]_vars

\* Accounts are set up one request at a time; a createLoan whose invitation
\* loop may fail runs on one worker while invited lenders accept on the
\* other.
NextFailedLoan ==
    \/ Quiet("w1") /\ StartRegistration("w1", RegisterEmails)
    \/ RegisterSteps("w1")
    \/ StartLoan("w1", {0}, OneLoan) \/ PutLoan("w1") \/ InviteSteps("w1")
    \/ InvitationBatchFails("w1") \/ MarkLoanFailed("w1")
    \/ StartLender("w2") \/ AcceptSteps("w2")

SpecFailedLoan == Init /\ [][NextFailedLoan]_vars

\* One request at a time: accounts, a loan of 1000.00 from two lenders,
\* their accepts, and the payments of the loan.
NextPay ==
    \/ StartRegistration("w1", {"a", "b"}) \/ RegisterSteps("w1")
    \/ StartLoanOf("w1", {100000}, {<<Invite("b", 50000), Invite("c", 50000)>>})
    \/ PutLoan("w1") \/ InviteSteps("w1")
    \/ StartLender("w1") \/ AcceptSteps("w1")
    \/ StartPayment("w1") \/ SubmitSteps("w1")
    \/ StartApproval("w1") \/ ApproveSteps("w1")
    \/ StartRejection("w1") \/ RejectUpdatePayment("w1")

SpecPay == Init /\ [][NextPay]_vars

\* Accounts, a loan, an accept and the payments are set up one request at
\* a time (payment ids are generated); approve and reject requests of
\* concurrent workers interleave at every storage call.
NextSettle ==
    \/ /\ Quiet("w1")
       /\ \/ StartRegistration("w1", {"a", "b"})
          \/ StartLoanOf("w1", {100000}, {<<Invite("b", 50000), Invite("c", 50000)>>})
          \/ StartLender("w1")
          \/ \E u \in users, l \in loans, p \in participants :
                /\ Cardinality(payments) < MaxPayments
                /\ StartSubmitPayment("w1", u, l.loan_id, p.lender_id, 30000, 0)
    \/ RegisterSteps("w1") \/ PutLoan("w1") \/ InviteSteps("w1")
    \/ AcceptSteps("w1") \/ SubmitSteps("w1")
    \/ \E w \in Workers :
          \/ Among(w, {"approvePayment", "rejectPayment"}) /\ (StartApproval(w) \/ StartRejection(w))
          \/ ApproveSteps(w) \/ RejectUpdatePayment(w)

SpecSettle == Init /\ [][NextSettle]_vars

\* Table contents for the participant lists: any of these user rows, at
\* most one participant row per key, any of these ACH records.
EnrichUsers == {[user_id |-> 1, email |-> "b", is_lender |-> TRUE],
                [user_id |-> 2, email |-> "c", is_lender |-> TRUE]}

EnrichParticipants ==
    {NewParticipant(l, Registered(u), 50000, 0) : l \in {1, 2}, u \in {1, 2}}
    \cup UNION {AcceptParticipant({NewParticipant(l, Registered(u), 50000, 0)},
                                  <<l, Registered(u)>>, 50000, 0) :
                    l \in {1, 2}, u \in {1, 2}}
    \cup {NewParticipant(1, PendingId("d"), 50000, 0)}

EnrichAch == {[user_id |-> u, loan_id |-> l, created_at |-> 0] : u \in {1, 2}, l \in {1, 2}}

InitEnrich ==
    /\ users \in SUBSET EnrichUsers
    /\ loans = {}
    /\ participants \in {S \in SUBSET EnrichParticipants :
                            \A x, y \in S : PartKey(x) = PartKey(y) => x = y}
    /\ invitations = {}
    /\ idem = {}
    /\ ach \in SUBSET EnrichAch
    /\ payments = {}
    /\ req = [w \in Workers |-> IdleReq]
    /\ clock = 0

NextEnrich ==
    \/ \E loan_id \in {1, 2} : ApplyEnrichParticipantData("w1", loan_id)
    \/ \E L \in {<<1>>, <<2, 1>>} : ApplyBatchEnrichLoans("w1", L)
    \/ \E loan_id \in {1, 2} : ApplyGetLoanParticipants("w1", loan_id)

SpecEnrich == InitEnrich /\ [][NextEnrich]_vars

\* validate_maturity_terms: a term is 1..60 months.
MaxTermLength == 60

StartDates == {[y |-> 2024, m |-> 1, d |-> 15], [y |-> 2024, m |-> 1, d |-> 31],
               [y |-> 2024, m |-> 2, d |-> 29], [y |-> 2023, m |-> 12, d |-> 31]}

InitTerms ==
    /\ users = {} /\ loans = {} /\ participants = {} /\ invitations = {}
    /\ idem = {} /\ ach = {} /\ payments = {}
    /\ clock = 0
    /\ \E start_date \in StartDates, payment_frequency \in Frequencies,
          term_length \in 1..MaxTermLength :
           req = [w \in Workers |->
                     IF w = "w1"
                     THEN LoanTermsCall(start_date, payment_frequency, term_length)
                     ELSE IdleReq]

NextTerms == ApplyLoanTerms("w1")

SpecTerms == InitTerms /\ [][NextTerms]_vars

\* Calls of calculate_lender_payments: contributions of 0, 5000.00 and
\* 20000.00 in units, annual rates of 5% and 8.5%.
CalcContributions == {0, 50000000, 200000000}

CalcRates == {<<5, 100>>, <<85, 1000>>}

CalcPayments == {1, 2, 12, 24}

InitAmortize ==
    /\ users = {} /\ loans = {} /\ participants = {} /\ invitations = {}
    /\ idem = {} /\ ach = {} /\ payments = {}
    /\ clock = 0
    /\ \E contribution_amount \in CalcContributions, rate \in CalcRates,
          total_payments \in CalcPayments, payment_frequency \in {"Monthly", "Quarterly"} :
           req = [w \in Workers |->
                     IF w = "w1"
                     THEN LenderPaymentsCall(contribution_amount, rate[1], rate[2],
                                             total_payments, payment_frequency)
                     ELSE IdleReq]

NextAmortize ==
    \/ ApplyLenderPayments("w1")
    \/ StartAmortization("w1",
                         req["w1"].calc.payments.payment_amount * MoneyUnit, TRUE)
    \/ StartAmortization("w1",
                         2 * req["w1"].calc.payments.payment_amount * MoneyUnit, FALSE)
    \/ AmortizationStep("w1")

SpecAmortize == InitAmortize /\ [][NextAmortize]_vars
====
